---------------------------- MODULE Spec2Model ----------------------------
(***************************************************************************)
(* A model of the browser-fingerprint repository: the user-agent and       *)
(* client-hint generator (fingerprint/ua.ts), the profile manager          *)
(* (fingerprint/profile.ts), the WebGL and hardware generators             *)
(* (fingerprint/webgl.ts, fingerprint/hardware.ts), the canvas payload     *)
(* (fingerprint/canvas.ts), the browser launcher (browser/launcher.ts),    *)
(* the generators of utils/cleanup.ts and the WARP and proxy managers      *)
(* (network/warp.ts).                                                      *)
(*                                                                         *)
(* The module holds several specifications over one set of variables:      *)
(*   SpecUA       generateUA followed by generateClientHints               *)
(*   SpecProfile  ProfileManager.create / regenerateFingerprint            *)
(*   SpecCanvas   the canvas payload running in one document               *)
(*   SpecNoise    addNoise of the canvas payload on one bitmap             *)
(*   SpecWebGL    the WebGL payload: getContext / getParameter             *)
(*   SpecTimezone the time zone overrides of the hardware payload          *)
(*   Spec         BrowserLauncher.launch / applyFingerprint / newPage      *)
(*   SpecProxy    ProxyManager.addProxy / addProxies / getNext             *)
(*   SpecWarp     WarpManager.getConfigForProfile, calls interleaved       *)
(*   SpecBrowsers BrowserLauncher.launch / close / closeAll / getBrowser   *)
(*   SpecGPU      generateRandomGPU                                        *)
(*   SpecHide     hideAutomationIndicators running in one document         *)
(* Each specification leaves the variables of the others at their idle     *)
(* values.                                                                 *)
(*                                                                         *)
(* Strings are TLA+ strings (sequences of characters): formatting and      *)
(* parsing are computed character by character.                            *)
(***************************************************************************)
EXTENDS Integers, Sequences, FiniteSets, TLC

VARIABLES
  \* --- SpecUA
  ua,            \* the string generateUA returned ("" before the call)
  uaDraw,        \* what generateUA drew: [platform, major, rand] (ghost of
                 \* the call; rand is the value its Math.random() returned)
  hints,         \* the client hints sent with ua in setUserAgentOverride
  \* --- SpecProfile
  profiles,      \* config.json of every profile directory: id -> ProfileConfig
  now,           \* the wall clock read by new Date()
  lastOp,        \* the last ProfileManager operation that ran
  userData,      \* the profile directories holding browser data
  \* --- SpecCanvas
  canvasCfg,     \* the config the canvas payload was synthesized with, and
                 \* the stream seededRandom(config.seed + '_canvas') yields
  pixels,        \* the bitmap of the canvas: R, G, B, A of every pixel
  lastCall,      \* the last call page script made on the canvas
  prevCall,      \* the call before it
  result,        \* what the last export or read returned
  pending,       \* the toBlob call whose callback has not fired yet
  \* --- Spec (BrowserLauncher)
  launchPc,      \* where the launch call stands
  launchQueue,   \* the pages the for-loop of launch has still to visit
  session,       \* the profile object launch read and closed over
  activeBrowsers, \* the keys of the activeBrowsers map
  pages,         \* the pages of the browser: hooks registered, document
  tasks,         \* the applyFingerprint calls in progress, by caller
  newPagePc,     \* where the launcher.newPage call stands
  failures,      \* host calls that have failed so far
  \* --- SpecWebGL, SpecTimezone (the webgl and hardware payloads in a page)
  glCfg,         \* the config the webgl payload was synthesized with
  glCanvas,      \* the canvases of the page: context mode, wrappers installed
  glResult,      \* what the last getParameter / getExtension call returned
  hwCfg,         \* the config the hardware payload was synthesized with
  hostZone,      \* the time zone of the host the browser runs on
  tzResult,      \* what the last timezone query of page script returned
  \* --- SpecHide (hideAutomationIndicators in a document)
  hideDoc,       \* the document: how often the payload ran, what
                 \* navigator.plugins and navigator.mimeTypes return
  hideResult,    \* what the last call of page script returned
  \* --- SpecGPU
  gpuCall,       \* the last generateRandomGPU call: platform, draw, result
  \* --- SpecBrowsers (BrowserLauncher: launch, close, closeAll)
  browserMap,    \* activeBrowsers: the entries of the Map, in insertion order
  running,       \* the browsers puppeteer.launch started, not closed since
  launched,      \* how many browsers have been started
  launcherResult, \* how the last call on the launcher settled
  \* --- SpecWarp (WarpManager.getConfigForProfile)
  instances,     \* the instances Map: profile id -> port
  warpCalls,     \* the getConfigForProfile calls in flight
  busyPorts,     \* the ports another process of the host listens on
  warpReturned,  \* the configs returned so far: <<profile id, socksPort>>
  \* --- SpecProxy (ProxyManager)
  proxies,       \* the proxies array
  currentIndex,  \* the index getNext reads next
  proxyLog,      \* the positions getNext returned since the last addition
  proxyResult    \* what the last getNext returned

uaVars      == <<ua, uaDraw, hints>>
profileVars == <<profiles, now, lastOp, userData>>
canvasVars  == <<canvasCfg, pixels, lastCall, prevCall, result, pending>>
launchVars  == <<launchPc, launchQueue, session, activeBrowsers, pages, tasks,
                 newPagePc, failures>>
payloadVars == <<glCfg, glCanvas, glResult, hwCfg, hostZone, tzResult>>
hideVars    == <<hideDoc, hideResult>>
gpuVars     == <<gpuCall>>
browserVars == <<browserMap, running, launched, launcherResult>>
warpVars    == <<instances, warpCalls, busyPorts, warpReturned>>
proxyVars   == <<proxies, currentIndex, proxyLog, proxyResult>>
extVars     == <<hideVars, gpuVars, browserVars, warpVars, proxyVars>>
coreVars    == <<uaVars, profileVars, canvasVars, launchVars, payloadVars>>
vars        == <<ua, uaDraw, hints, profiles, now, lastOp, userData,
                 canvasCfg, pixels, lastCall, prevCall, result, pending,
                 launchPc, launchQueue, session, activeBrowsers, pages, tasks,
                 newPagePc, failures,
                 glCfg, glCanvas, glResult, hwCfg, hostZone, tzResult,
                 hideDoc, hideResult, gpuCall,
                 browserMap, running, launched, launcherResult,
                 instances, warpCalls, busyPorts, warpReturned,
                 proxies, currentIndex, proxyLog, proxyResult>>

(***************************************************************************)
(* Math.random.  A call returns a value in [0,1); the model gives it the   *)
(* values k/RandDen.  The values one operation draws form a stream         *)
(* r_i = ((a + b*i) mod RandDen) / RandDen, i the number of the draw       *)
(* within the operation, chosen by the pair (a, b): b = 0 repeats one      *)
(* value, b > 0 walks through all of them.                                 *)
(***************************************************************************)
RandDen == 17
MaxStep == 1

StreamsOf(den) == [a : 0..(den - 1), b : 0..MaxStep, den : {den}]

Streams == StreamsOf(RandDen)

\* The numerator of draw number i of stream st (the value is this / st.den).
MathRandom(st, i) == (st.a + st.b * i) % st.den

\* Math.floor(Math.random() * n), for draw number i.
FloorRandom(st, i, n) == (MathRandom(st, i) * n) \div st.den

randomInt(min, max, st, i) == FloorRandom(st, i, max - min + 1) + min

randomChoice(arr, st, i) == arr[FloorRandom(st, i, Len(arr)) + 1]

(***************************************************************************)
(* fingerprint/ua.ts                                                       *)
(***************************************************************************)
CHROME_VERSIONS_min == 110
CHROME_VERSIONS_max == 120
BUILD_min == 5000
BUILD_max == 6000
PATCH_min == 0
PATCH_max == 200

PLATFORMS ==
  [ windows |-> [name |-> "Windows NT", versions |-> <<"10.0", "11.0">>,
                 arch |-> <<"Win64; x64">>],
    mac     |-> [name |-> "Macintosh",
                 versions |-> <<"10_15_7", "11_0", "12_0", "13_0", "14_0">>,
                 arch |-> <<"Intel Mac OS X", "Apple Silicon">>],
    linux   |-> [name |-> "X11", versions |-> <<"">>,
                 arch |-> <<"Linux x86_64">>] ]

\* WEBKIT_BASE = 537.36, as the template literal prints it.
WEBKIT_BASE == "537.36"

PlatformType == {"windows", "mac", "linux", "random"}

\* generateChromeVersion draws major, build and patch (draws i, i+1, i+2).
generateChromeVersion(st, i) ==
  LET major == randomInt(CHROME_VERSIONS_min, CHROME_VERSIONS_max, st, i)
      minor == 0
      build == randomInt(BUILD_min, BUILD_max, st, i + 1)
      patch == randomInt(PATCH_min, PATCH_max, st, i + 2)
  IN  [ version |-> ToString(major) \o "." \o ToString(minor) \o "."
                      \o ToString(build) \o "." \o ToString(patch),
        major |-> major ]

UATail(chromeVersion) ==
  ") AppleWebKit/" \o WEBKIT_BASE \o " (KHTML, like Gecko) Chrome/"
    \o chromeVersion \o " Safari/" \o WEBKIT_BASE

\* Each generator returns the string, the major version it drew and the
\* number of Math.random calls it made.
generateWindowsUA(st, i) ==
  LET cv        == generateChromeVersion(st, i)
      ntVersion == randomChoice(PLATFORMS.windows.versions, st, i + 3)
      arch      == randomChoice(PLATFORMS.windows.arch, st, i + 4)
  IN  [ ua |-> "Mozilla/5.0 (Windows NT " \o ntVersion \o "; " \o arch
                 \o UATail(cv.version),
        major |-> cv.major, draws |-> 5 ]

generateMacUA(st, i) ==
  LET cv        == generateChromeVersion(st, i)
      osVersion == randomChoice(PLATFORMS.mac.versions, st, i + 3)
  IN  [ ua |-> "Mozilla/5.0 (Macintosh; Intel Mac OS X " \o osVersion
                 \o UATail(cv.version),
        major |-> cv.major, draws |-> 4 ]

generateLinuxUA(st, i) ==
  LET cv == generateChromeVersion(st, i)
  IN  [ ua |-> "Mozilla/5.0 (X11; Linux x86_64" \o UATail(cv.version),
        major |-> cv.major, draws |-> 3 ]

\* IEEE 754 doubles in [0, 2), as the code's additions and comparison see
\* them.  A value is a whole number of units of 2^-56, held as three limbs
\* <<h, m, l>> of 19 bits: h * 2^38 + m * 2^19 + l.  Doubles in [1/2, 1) are
\* the multiples of 8 units, in [1/4, 1/2) of 4, in [1/8, 1/4) of 2, in
\* [1/16, 1/8) of 1; smaller values are not needed.
Limb == 2^19
Limbs == Int \X Int \X Int

Norm[x \in Limbs] ==
  LET carry == x[3] \div Limb
  IN  <<x[1] + ((x[2] + carry) \div Limb), (x[2] + carry) % Limb, x[3] % Limb>>

DZero == <<0, 0, 0>>
DPlus[x \in Limbs, y \in Limbs] == Norm[<<x[1] + y[1], x[2] + y[2], x[3] + y[3]>>]
DMinus[x \in Limbs, y \in Limbs] == Norm[<<x[1] - y[1], x[2] - y[2], x[3] - y[3]>>]

\* x < y
DLess[x \in Limbs, y \in Limbs] ==
  \/ x[1] < y[1]
  \/ x[1] = y[1] /\ x[2] < y[2]
  \/ x[1] = y[1] /\ x[2] = y[2] /\ x[3] < y[3]

\* The spacing of the doubles around x, in units.
Ulp[x \in Limbs] ==
  IF x[1] >= 2^17 THEN 8 ELSE IF x[1] >= 2^16 THEN 4
  ELSE IF x[1] >= 2^15 THEN 2 ELSE 1

\* x + rem/den (0 <= rem < den) rounded to the nearest double, ties to even.
RoundNearestEven[x \in Limbs, rem \in Nat, den \in Nat] ==
  LET low  == x[3] % Ulp[x]
      odd  == ((x[3] - low) \div Ulp[x]) % 2 = 1
      up   == \/ 2 * (low * den + rem) > Ulp[x] * den
              \/ 2 * (low * den + rem) = Ulp[x] * den /\ odd
  IN  IF up THEN DPlus[<<x[1], x[2], x[3] - low>>, <<0, 0, Ulp[x]>>]
            ELSE <<x[1], x[2], x[3] - low>>

\* floor(num * 2^56 / den) and the remainder, by long division;
\* 0 <= num < 2 * den, den < 2^11.
Quotient[num \in Nat, den \in Nat] ==
  LET n1 == num * 2^18
      n2 == (n1 % den) * Limb
      n3 == (n2 % den) * Limb
  IN  [q |-> <<n1 \div den, n2 \div den, n3 \div den>>, rem |-> n3 % den]

\* The double a decimal literal num/den denotes.
Double(num, den) ==
  RoundNearestEven[Quotient[num, den].q, Quotient[num, den].rem, den]

\* The double of x + y.
DAdd(x, y) == RoundNearestEven[DPlus[x, y], 0, 1]

\* Math.random of V8 returns the multiples of 2^-52 in [0, 1), 16 units
\* apart: the one at or below x.
V8Random[x \in Limbs] == <<x[1], x[2], x[3] - (x[3] % 16)>>

\* The draw k/den of a stream, as the value Math.random returns.
RandomDouble(k, den) == V8Random[Quotient[k, den].q]

\* The weights of generateUA: the literals 0.7, 0.2, 0.1 (in tenths), and
\* the running sum  cumulative += weights[i].
UAWeights == <<7, 2, 1>>
UAPlatforms == <<"windows", "mac", "linux">>

Weight(i) == Double(UAWeights[i], 10)

RECURSIVE Cumulative(_)
Cumulative(i) == IF i = 0 THEN DZero ELSE DAdd(Cumulative(i - 1), Weight(i))

\* The loop of generateUA: the first i with rand < cumulative; "random" is
\* kept when no i qualifies.
ResolvePlatform(rand) ==
  LET hit == {i \in 1..Len(UAPlatforms) : DLess[rand, Cumulative(i)]}
  IN  IF hit = {} THEN "random"
      ELSE UAPlatforms[CHOOSE i \in hit : \A j \in hit : i <= j]

\* generateUA(platform) with rand the value of its Math.random() call and
\* the draws of the generator it dispatches to numbered from j.
generateUAWith(platform, rand, st, j) ==
  LET resolved == IF platform = "random" THEN ResolvePlatform(rand)
                                         ELSE platform
      g == CASE resolved = "windows" -> generateWindowsUA(st, j)
             [] resolved = "mac"     -> generateMacUA(st, j)
             [] resolved = "linux"   -> generateLinuxUA(st, j)
             [] OTHER                -> generateWindowsUA(st, j)
  IN  [ ua |-> g.ua, major |-> g.major,
        platform |-> IF resolved = "random" THEN "windows" ELSE resolved,
        draws |-> g.draws ]

\* generateUA(platform), its draws numbered from i.
generateUA(platform, st, i) ==
  LET j == IF platform = "random" THEN i + 1 ELSE i
      g == generateUAWith(platform, RandomDouble(MathRandom(st, i), st.den),
                          st, j)
  IN  [g EXCEPT !.draws = @ + (j - i)]

(***************************************************************************)
(* parseUA and generateClientHints: String.match, String.split and         *)
(* String.includes, computed on the characters.                            *)
(***************************************************************************)
CharAt(s, i) == SubSeq(s, i, i)

IsDigit(c) == c \in {"0", "1", "2", "3", "4", "5", "6", "7", "8", "9"}

\* s.includes(sub)
includes(s, sub) ==
  \E i \in 1..(Len(s) - Len(sub) + 1) : SubSeq(s, i, i + Len(sub) - 1) = sub

\* The index after the longest run of digits that starts at i (\d+ is greedy;
\* i itself when s[i] is no digit).
RECURSIVE DigitsEnd(_, _)
DigitsEnd(s, i) ==
  IF i <= Len(s) /\ IsDigit(CharAt(s, i)) THEN DigitsEnd(s, i + 1) ELSE i

\* \d+(\.\d+){n}  matched at i: the index after the match, 0 when it fails.
RECURSIVE DottedEnd(_, _, _)
DottedEnd(s, i, n) ==
  LET e == DigitsEnd(s, i)
  IN  IF e = i THEN 0
      ELSE IF n = 0 THEN e
      ELSE IF e <= Len(s) /\ CharAt(s, e) = "." THEN DottedEnd(s, e + 1, n - 1)
      ELSE 0

\* ua.match(/Chrome\/(\d+\.\d+\.\d+\.\d+)/): the captured group of the
\* leftmost match, "" when there is none.
ChromeMatch(s) ==
  LET lit  == "Chrome/"
      at   == {i \in 1..Len(s) :
                 /\ i + Len(lit) - 1 <= Len(s)
                 /\ SubSeq(s, i, i + Len(lit) - 1) = lit
                 /\ DottedEnd(s, i + Len(lit), 3) # 0}
  IN  IF at = {} THEN ""
      ELSE LET i == CHOOSE x \in at : \A y \in at : x <= y
           IN  SubSeq(s, i + Len(lit), DottedEnd(s, i + Len(lit), 3) - 1)

\* The index after the longest run of characters other than ")" from i.
RECURSIVE NotParenEnd(_, _)
NotParenEnd(s, i) ==
  IF i <= Len(s) /\ CharAt(s, i) # ")" THEN NotParenEnd(s, i + 1) ELSE i

\* ua.match(/\(([^)]+)\)/): the captured group of the leftmost match.
PlatformMatch(s) ==
  LET at == {i \in 1..Len(s) :
               /\ CharAt(s, i) = "("
               /\ NotParenEnd(s, i + 1) > i + 1
               /\ NotParenEnd(s, i + 1) <= Len(s)}
  IN  IF at = {} THEN ""
      ELSE LET i == CHOOSE x \in at : \A y \in at : x <= y
           IN  SubSeq(s, i + 1, NotParenEnd(s, i + 1) - 1)

NoUA == [parsed |-> FALSE]

parseUA(s) ==
  IF ChromeMatch(s) = "" \/ PlatformMatch(s) = "" THEN NoUA
  ELSE [ parsed |-> TRUE,
         platform |-> PlatformMatch(s),
         platformVersion |-> "",
         browser |-> "Chrome",
         browserVersion |-> ChromeMatch(s),
         webkit |-> WEBKIT_BASE,
         chrome |-> ChromeMatch(s) ]

\* version.split('.')[n], n counted from 0.
RECURSIVE SplitDot(_, _)
SplitDot(s, n) ==
  LET e == CHOOSE k \in 1..(Len(s) + 1) :
             /\ k = Len(s) + 1 \/ CharAt(s, k) = "."
             /\ \A j \in 1..(k - 1) : CharAt(s, j) # "."
  IN  IF n = 0 THEN SubSeq(s, 1, e - 1)
      ELSE IF e > Len(s) THEN ""
      ELSE SplitDot(SubSeq(s, e + 1, Len(s)), n - 1)

MajorVersion_minor(browserVersion) == SplitDot(browserVersion, 1)

\* const majorVersion = parsed.browserVersion.split('.')[0]
MajorVersion(browserVersion) == SplitDot(browserVersion, 0)

NoHints == [present |-> FALSE]

generateClientHints(s) ==
  LET parsed == parseUA(s)
  IN  IF ~parsed.parsed THEN NoHints
      ELSE LET majorVersion == MajorVersion(parsed.browserVersion)
           IN  [ present |-> TRUE,
                 secChUa |-> "\"Chromium\";v=\"" \o majorVersion
                               \o "\", \"Google Chrome\";v=\"" \o majorVersion
                               \o "\", \"Not=A?Brand\";v=\"8\"",
                 secChUaMobile |-> "?0",
                 secChUaPlatform |->
                   IF includes(s, "Windows") THEN "\"Windows\""
                   ELSE IF includes(s, "Mac") THEN "\"macOS\""
                   ELSE "\"Linux\"" ]

(***************************************************************************)
(* SpecUA: one generateUA call, then the generateClientHints call that     *)
(* applyFingerprint makes for Network.setUserAgentOverride.                *)
(***************************************************************************)
NoRand == <<>>
NoDraw == [platform |-> "none", major |-> 0, rand |-> NoRand]

\* Nothing sent yet with Network.setUserAgentOverride.
NotSent == [sent |-> FALSE, h |-> NoHints]

IdleUA == ua = "" /\ uaDraw = NoDraw /\ hints = NotSent

GenerateUACall(platform, st) ==
  LET g == generateUA(platform, st, 0)
  IN  /\ ua = ""
      /\ ua' = g.ua
      /\ uaDraw' = [platform |-> g.platform, major |-> g.major,
                    rand |-> IF platform = "random"
                               THEN RandomDouble(MathRandom(st, 0), st.den)
                               ELSE NoRand]
      /\ hints' = NotSent
      /\ UNCHANGED <<profileVars, canvasVars, launchVars,
                 payloadVars,
                 extVars>>

\* The values of Math.random() the platform draw is examined at: a grid
\* over [0, 1), the values next to the literals 0.7 and 0.9, and the
\* largest value there is.
ResolveDen == 32

ResolveDraws ==
  {RandomDouble(k, ResolveDen) : k \in 0..(ResolveDen - 1)}
  \cup {DPlus[V8Random[Double(t, 10)], <<0, 0, 16 * d>>] :
          t \in {7, 9}, d \in -2..2}
  \cup {V8Random[DMinus[<<2^18, 0, 0>>, <<0, 0, 1>>]]}

\* generateUA('random') with rand the value its Math.random() call returns.
GenerateUARandom(rand, st) ==
  LET g == generateUAWith("random", rand, st, 1)
  IN  /\ ua = ""
      /\ ua' = g.ua
      /\ uaDraw' = [platform |-> g.platform, major |-> g.major,
                    rand |-> rand]
      /\ hints' = NotSent
      /\ UNCHANGED <<profileVars, canvasVars, launchVars,
                 payloadVars,
                 extVars>>

\* ...generateClientHints(profile.userAgent), spread into the CDP message.
ClientHintsCall ==
  /\ ua # ""
  /\ hints' = [sent |-> TRUE, h |-> generateClientHints(ua)]
  /\ UNCHANGED <<ua, uaDraw, profileVars, canvasVars, launchVars,
                 payloadVars,
                 extVars>>

(***************************************************************************)
(* fingerprint/canvas.ts, fingerprint/webgl.ts, fingerprint/hardware.ts:   *)
(* the configuration generators.                                           *)
(***************************************************************************)
SeedLen == 32

HexDigit(k) == SubSeq("0123456789abcdef", k + 1, k + 1)

\* Array.from({ length: n }, () => Math.floor(Math.random() * 16)
\*   .toString(16)).join(''), its draws numbered from i.
RECURSIVE HexSeed(_, _, _)
HexSeed(st, i, n) ==
  IF n = 0 THEN ""
  ELSE HexDigit(FloorRandom(st, i, 16)) \o HexSeed(st, i + 1, n - 1)

generateCanvasNoiseSeed(st, i) == HexSeed(st, i, SeedLen)
generateWebGLSeed(st, i)       == HexSeed(st, i, SeedLen)
generateHardwareSeed(st, i)    == HexSeed(st, i, SeedLen)

DefaultNoise == 3

getDefaultCanvasConfig(st, i) ==
  [ enabled |-> TRUE, noise |-> DefaultNoise,
    seed |-> generateCanvasNoiseSeed(st, i) ]

CanvasDraws == SeedLen

Nvidia(model) ==
  [ vendor |-> "Google Inc. (NVIDIA)",
    renderer |-> "ANGLE (NVIDIA, NVIDIA GeForce " \o model
                   \o " Direct3D11 vs_5_0 ps_5_0, D3D11)" ]
Amd(model) ==
  [ vendor |-> "Google Inc. (AMD)",
    renderer |-> "ANGLE (AMD, AMD Radeon " \o model
                   \o " Direct3D11 vs_5_0 ps_5_0, D3D11)" ]
Intel(model) ==
  [ vendor |-> "Google Inc. (Intel)",
    renderer |-> "ANGLE (Intel, Intel(R) " \o model
                   \o " Direct3D11 vs_5_0 ps_5_0, D3D11)" ]
Apple(model) ==
  [ vendor |-> "Google Inc. (Apple)",
    renderer |-> "ANGLE (Apple, Apple " \o model \o ", OpenGL 4.1)" ]

GPU_CONFIGS ==
  << Nvidia("GTX 1650"), Nvidia("GTX 1660 SUPER"), Nvidia("RTX 2060"),
     Nvidia("RTX 3060"), Nvidia("RTX 3070"), Nvidia("RTX 3080"),
     Nvidia("RTX 4060"), Nvidia("RTX 4070"),
     Amd("RX 580 Series"), Amd("RX 5600 XT"), Amd("RX 6700 XT"),
     Amd("RX 6800 XT"),
     Intel("UHD Graphics 630"), Intel("Iris(R) Xe Graphics"),
     Intel("UHD Graphics 770"),
     Apple("M1 Pro"), Apple("M2"), Apple("M2 Pro") >>

IsAppleGPU(g) == includes(g.vendor, "(Apple)")
NotAppleGPU(g) == ~IsAppleGPU(g)

\* candidates.length ? candidates : GPU_CONFIGS
OrAll_noFallback(candidates) == candidates

OrAll(candidates) == IF Len(candidates) # 0 THEN candidates ELSE GPU_CONFIGS

\* generateRandomGPU(platform): one draw, numbered i.
generateRandomGPU(platform, st, i) ==
  IF platform = "mac"
    THEN randomChoice(OrAll(SelectSeq(GPU_CONFIGS, IsAppleGPU)), st, i)
  ELSE IF platform = "windows" \/ platform = "linux"
    THEN randomChoice(OrAll(SelectSeq(GPU_CONFIGS, NotAppleGPU)), st, i)
  ELSE randomChoice(GPU_CONFIGS, st, i)

getDefaultWebGLConfig(platform, st, i) ==
  LET gpu == generateRandomGPU(platform, st, i)
  IN  [ enabled |-> TRUE, vendor |-> gpu.vendor, renderer |-> gpu.renderer,
        seed |-> generateWebGLSeed(st, i + 1) ]

WebGLDraws == 1 + SeedLen

SCREEN_RESOLUTIONS ==
  << [width |-> 1920, height |-> 1080], [width |-> 2560, height |-> 1440],
     [width |-> 1366, height |-> 768],  [width |-> 1536, height |-> 864],
     [width |-> 1440, height |-> 900],  [width |-> 1680, height |-> 1050],
     [width |-> 2560, height |-> 1600], [width |-> 3840, height |-> 2160] >>

CPU_CORES == <<4, 6, 8, 12, 16>>

MEMORY_SIZES == <<4, 8, 16, 32>>

LANGUAGES ==
  << [primary |-> "en-US", list |-> <<"en-US", "en">>],
     [primary |-> "en-GB", list |-> <<"en-GB", "en">>],
     [primary |-> "zh-CN", list |-> <<"zh-CN", "zh">>],
     [primary |-> "ja-JP", list |-> <<"ja-JP", "ja", "en">>],
     [primary |-> "ko-KR", list |-> <<"ko-KR", "ko", "en">>],
     [primary |-> "de-DE", list |-> <<"de-DE", "de", "en">>],
     [primary |-> "fr-FR", list |-> <<"fr-FR", "fr", "en">>] >>

TIMEZONES ==
  << "America/New_York", "America/Los_Angeles", "America/Chicago",
     "Europe/London", "Europe/Paris", "Europe/Berlin", "Asia/Tokyo",
     "Asia/Shanghai", "Asia/Singapore", "Australia/Sydney" >>

\* The device pixel ratios, as their JSON text.
PIXEL_RATIOS == <<"1", "1.25", "1.5", "2">>

ColorDepth == 24

NavigatorPlatform(resolvedPlatform) ==
  IF resolvedPlatform = "mac" THEN "MacIntel"
  ELSE IF resolvedPlatform = "windows" THEN "Win32"
  ELSE "Linux x86_64"

\* generateRandomHardware(platform): screen, lang, (the platform when it is
\* 'random'), then cores, memory, timezone and pixel ratio, in the order the
\* code draws them.
generateRandomHardware(platform, st, i) ==
  LET screen == randomChoice(SCREEN_RESOLUTIONS, st, i)
      lang   == randomChoice(LANGUAGES, st, i + 1)
      resolvedPlatform ==
        IF platform = "random"
          THEN randomChoice(<<"windows", "mac", "linux">>, st, i + 2)
          ELSE platform
      j == IF platform = "random" THEN i + 3 ELSE i + 2
  IN  [ hardwareConcurrency |-> randomChoice(CPU_CORES, st, j),
        deviceMemory |-> randomChoice(MEMORY_SIZES, st, j + 1),
        platform |-> NavigatorPlatform(resolvedPlatform),
        language |-> lang.primary,
        languages |-> lang.list,
        timezone |-> randomChoice(TIMEZONES, st, j + 2),
        screenWidth |-> screen.width,
        screenHeight |-> screen.height,
        colorDepth |-> ColorDepth,
        pixelRatio |-> randomChoice(PIXEL_RATIOS, st, j + 3) ]

HardwareDraws(platform) == IF platform = "random" THEN 7 ELSE 6

getDefaultHardwareConfig(platform, st, i) ==
  LET hardware == generateRandomHardware(platform, st, i)
  IN  [ enabled |-> TRUE,
        hardwareConcurrency |-> hardware.hardwareConcurrency,
        deviceMemory |-> hardware.deviceMemory,
        platform |-> hardware.platform,
        language |-> hardware.language,
        languages |-> hardware.languages,
        timezone |-> hardware.timezone,
        screenWidth |-> hardware.screenWidth,
        screenHeight |-> hardware.screenHeight,
        colorDepth |-> hardware.colorDepth,
        pixelRatio |-> hardware.pixelRatio,
        seed |-> generateHardwareSeed(st, i + HardwareDraws(platform)) ]

(***************************************************************************)
(* fingerprint/profile.ts: ProfileManager.  The store is the set of        *)
(* profile directories holding a config.json: a function from the ids that *)
(* exist to their ProfileConfig.                                           *)
(***************************************************************************)
ProfileIds == {"p1"}

Names == {"account1"}

NoProxy == [type |-> "none"]
ProxyChoices == {NoProxy, [type |-> "socks5", host |-> "127.0.0.1", port |-> 1080]}

MaxClock == 1

\* The platform the generators of the bundle are called with: create and
\* regenerateFingerprint call getDefaultWebGLConfig() and
\* getDefaultHardwareConfig() without an argument, so the parameter takes its
\* default, 'random'.
BundlePlatform(platform) == "random"

\* The four generated values of create and regenerateFingerprint, in the
\* order the object literal evaluates them.
GenerateFingerprint(platform, st) ==
  LET Bundle(u) ==
        [ userAgent |-> u.ua,
          canvas    |-> getDefaultCanvasConfig(st, u.draws),
          webgl     |-> getDefaultWebGLConfig(BundlePlatform(platform), st,
                                              u.draws + CanvasDraws),
          hardware  |-> getDefaultHardwareConfig(BundlePlatform(platform), st,
                                                 u.draws + CanvasDraws
                                                   + WebGLDraws) ]
  IN  CHOOSE fp \in {Bundle(u) : u \in {generateUA(platform, st, 0)}} : TRUE

\* GenerateFingerprint, tabulated for every platform choice and stream (the
\* @@ makes the table an explicit function, built once).
FingerprintTable ==
  [platform \in PlatformType, st \in Streams |->
     GenerateFingerprint(platform, st)] @@ <<>>

\* { ...a, ...b }
Merge(a, b) ==
  [f \in (DOMAIN a) \cup (DOMAIN b) |-> IF f \in DOMAIN b THEN b[f] ELSE a[f]]

Exists(id) == id \in DOMAIN profiles

\* get(profileId): the parsed config.json.
get(id) == profiles[id]

\* create(name, platform, proxy); id is the fresh uuid.
Create(id, name, platform, proxy, st) ==
  LET fp == FingerprintTable[platform, st]
      config == [ id |-> id, name |-> name, createdAt |-> now,
                  lastUsed |-> now, userAgent |-> fp.userAgent,
                  platform |-> platform, canvas |-> fp.canvas,
                  webgl |-> fp.webgl, hardware |-> fp.hardware,
                  proxy |-> proxy ]
  IN  /\ ~Exists(id)
      /\ profiles' = profiles @@ (id :> config)
      /\ lastOp' = "create"
      /\ UNCHANGED <<now, userData, uaVars, canvasVars, launchVars,
                 payloadVars,
                 extVars>>

\* update(profileId, updates): the new contents of the store.
update(id, updates) ==
  IF ~Exists(id) THEN profiles
  ELSE [profiles EXCEPT
          ![id] = Merge(Merge(get(id), updates), [lastUsed |-> now])]

\* Partial<ProfileConfig>: any subset of the fields.
UpdateChoices == { [name |-> "renamed"], [userAgent |-> "Mozilla/5.0 (custom)"] }

Update(id, updates) ==
  /\ Exists(id)
  /\ profiles' = update(id, updates)
  /\ lastOp' = "update"
  /\ UNCHANGED <<now, userData, uaVars, canvasVars, launchVars,
                 payloadVars,
                 extVars>>

\* The updates regenerateFingerprint hands to update: the four generated
\* values.
RegenerateUpdates_withoutUA(config, st) ==
  LET fp == FingerprintTable[config.platform, st]
  IN  [canvas |-> fp.canvas, webgl |-> fp.webgl, hardware |-> fp.hardware]

RegenerateUpdates(config, st) == FingerprintTable[config.platform, st]

\* regenerateFingerprint(profileId)
RegenerateFingerprint(id, st) ==
  /\ Exists(id)
  /\ profiles' = update(id, RegenerateUpdates(get(id), st))
  /\ lastOp' = "regenerateFingerprint"
  /\ UNCHANGED <<now, userData, uaVars, canvasVars, launchVars,
                 payloadVars,
                 extVars>>

\* delete(profileId)
Delete(id) ==
  /\ Exists(id)
  /\ profiles' = [x \in (DOMAIN profiles) \ {id} |-> profiles[x]]
  /\ userData' = userData \ {id}
  /\ lastOp' = "delete"
  /\ UNCHANGED <<now, uaVars, canvasVars, launchVars,
                 payloadVars,
                 extVars>>

\* clean(profileId): everything in the directory but config.json goes.
Clean(id) ==
  /\ Exists(id)
  /\ userData' = userData \ {id}
  /\ lastOp' = "clean"
  /\ UNCHANGED <<profiles, now, uaVars, canvasVars, launchVars,
                 payloadVars,
                 extVars>>

\* A browser launched on the profile has run: launch has stamped lastUsed
\* and Chrome has written cookies and cache into the directory
\* (getUserDataDir is the profile directory).
BrowserRun(id) ==
  /\ Exists(id)
  /\ id \notin userData
  /\ profiles' = update(id, [lastUsed |-> now])
  /\ userData' = userData \cup {id}
  /\ lastOp' = "update"
  /\ UNCHANGED <<now, uaVars, canvasVars, launchVars,
                 payloadVars,
                 extVars>>

\* Time passes.
Tick ==
  /\ now < MaxClock
  /\ now' = now + 1
  /\ UNCHANGED <<profiles, lastOp, userData, uaVars, canvasVars, launchVars,
                 payloadVars,
                 extVars>>

IdleStore == lastOp = "none" /\ userData = {}

IdleProfiles == profiles = <<>> /\ now = 0 /\ IdleStore

(***************************************************************************)
(* fingerprint/canvas.ts: the payload running in one document.  The canvas *)
(* is a 2D canvas of CanvasPixels pixels; its bitmap is the sequence       *)
(* R, G, B, A, R, G, B, A, ... that getImageData exposes.  Page script      *)
(* draws opaque colours or clears a pixel to transparent black.            *)
(***************************************************************************)
CanvasPixels == 1
NoiseDen == 2
MaxNoiseLevel == 10

\* White, a mixed colour (channels at 0, mid-range and 255), and
\* transparent black.
Colors ==
  { <<255, 255, 255, 255>>, <<0, 128, 255, 255>>, <<0, 0, 0, 0>> }

BlankCanvas == [i \in 1..(4 * CanvasPixels) |-> 0]

CanvasConfigs ==
  [enabled : BOOLEAN, noise : 0..MaxNoiseLevel, st : StreamsOf(NoiseDen)]

\* seededRandom(seed): call number n (from 0) of the generator made from the
\* seed.  The generator is a function of the seed alone: stream st.
seededRandom(st, n) == MathRandom(st, n)

\* Math.floor((random() - 0.5) * noiseScale * 10), noiseScale = noise / 100,
\* random() = k / den:  floor((2k - den) * noise / (20 * den)).
NoiseOf(k, den, noise) == ((2 * k - den) * noise) \div (20 * den)

\* Math.max(0, Math.min(255, v))
Clamp_none(v) == v

Clamp(v) == IF v < 0 THEN 0 ELSE IF v > 255 THEN 255 ELSE v

\* addNoise(imageData): a fresh generator per call; draws 3 values per
\* pixel, for R, G and B; leaves alpha alone.
addNoise(config, data) ==
  [i \in 1..Len(data) |->
     LET j == (i - 1) % 4
         p == (i - 1) \div 4
     IN  IF j = 3
           THEN data[i]
           ELSE Clamp(data[i] + NoiseOf(seededRandom(config.st, 3 * p + j),
                                        config.st.den, config.noise))]

\* originalToDataURL: the PNG data URL of the bitmap (lossless).
originalToDataURL(bitmap) == <<"data:image/png", bitmap>>

\* imageData.data.set(originalData); ctx.putImageData(imageData, 0, 0)
RestoreOriginal_omitted(originalData, bitmap) == bitmap

RestoreOriginal(originalData, bitmap) == originalData

\* The toDataURL override: what it returns and the bitmap it leaves.
toDataURL(config, bitmap) ==
  IF ~config.enabled
    THEN [result |-> originalToDataURL(bitmap), bitmap |-> bitmap]
    ELSE LET originalData == bitmap
             noisyData    == addNoise(config, bitmap)
         IN  [result |-> originalToDataURL(noisyData),
              bitmap |-> RestoreOriginal(originalData, noisyData)]

\* The getImageData override: the data it returns.
getImageData(config, bitmap) ==
  IF ~config.enabled THEN bitmap ELSE addNoise(config, bitmap)

NoResult == <<>>

Called(op) == lastCall' = op /\ prevCall' = lastCall

\* ctx.fillRect / clearRect on pixel p.
Draw(p, color) ==
  /\ pixels' = [i \in 1..Len(pixels) |->
                  IF (i - 1) \div 4 = p THEN color[((i - 1) % 4) + 1]
                                        ELSE pixels[i]]
  /\ result' = NoResult
  /\ Called("draw")
  /\ UNCHANGED <<canvasCfg, pending, uaVars, profileVars, launchVars,
                 payloadVars,
                 extVars>>

ToDataURL ==
  LET r == toDataURL(canvasCfg, pixels)
  IN  /\ pixels' = r.bitmap
      /\ result' = r.result
      /\ Called("toDataURL")
      /\ UNCHANGED <<canvasCfg, pending, uaVars, profileVars, launchVars,
                 payloadVars,
                 extVars>>

GetImageData ==
  /\ result' = getImageData(canvasCfg, pixels)
  /\ Called("getImageData")
  /\ UNCHANGED <<canvasCfg, pixels, pending, uaVars, profileVars, launchVars,
                 payloadVars,
                 extVars>>

\* No toBlob callback is outstanding.
NoPending == [waiting |-> FALSE]

\* originalToBlob: the blob is the PNG encoding of the bitmap as it is when
\* toBlob is called; the callback is run later, from a task.
originalToBlob(bitmap) == <<"image/png", bitmap>>

\* The toBlob override, up to its return: the bitmap it leaves and the
\* callback it handed to originalToBlob (wrappedCallback, which restores
\* originalData, or the caller's own callback when the payload is disabled).
toBlob(config, bitmap) ==
  IF ~config.enabled
    THEN [bitmap  |-> bitmap,
          pending |-> [waiting |-> TRUE, wrapped |-> FALSE,
                       originalData |-> bitmap,
                       blob |-> originalToBlob(bitmap)]]
    ELSE LET originalData == bitmap
             noisyData    == addNoise(config, bitmap)
         IN  [bitmap  |-> noisyData,
              pending |-> [waiting |-> TRUE, wrapped |-> TRUE,
                           originalData |-> originalData,
                           blob |-> originalToBlob(noisyData)]]

\* canvas.toBlob(callback), with no other toBlob of the canvas outstanding.
ToBlob ==
  LET r == toBlob(canvasCfg, pixels)
  IN  /\ ~pending.waiting
      /\ pixels' = r.bitmap
      /\ pending' = r.pending
      /\ result' = NoResult
      /\ Called("toBlob")
      /\ UNCHANGED <<canvasCfg, uaVars, profileVars, launchVars,
                 payloadVars,
                 extVars>>

\* The task that runs the callback of the outstanding toBlob:
\* wrappedCallback restores originalData, then calls callback(blob).
BlobCallback ==
  /\ pending.waiting
  /\ pixels' = IF pending.wrapped
                 THEN RestoreOriginal(pending.originalData, pixels)
                 ELSE pixels
  /\ result' = pending.blob
  /\ pending' = NoPending
  /\ Called("blobCallback")
  /\ UNCHANGED <<canvasCfg, uaVars, profileVars, launchVars,
                 payloadVars,
                 extVars>>

\* addNoise(imageData) applied to the data of one pixel.
AddNoiseCall ==
  /\ lastCall = "none"
  /\ result' = addNoise(canvasCfg, pixels)
  /\ Called("addNoise")
  /\ UNCHANGED <<canvasCfg, pixels, pending, uaVars, profileVars, launchVars,
                 payloadVars,
                 extVars>>

\* The values of the seeded generator addNoise is examined at: the
\* multiples of 1/NoiseGrid in [0, 1).
NoiseGrid == 8

\* One pixel with the red channel at v: green and blue at other values, any
\* of two alphas.
PixelAt(v, alpha) == <<v, 255 - v, (v + 128) % 256, alpha>>

IdleCanvas ==
  /\ canvasCfg = [enabled |-> FALSE, noise |-> 0,
                  st |-> [a |-> 0, b |-> 0, den |-> NoiseDen]]
  /\ pixels = <<>>
  /\ lastCall = "none"
  /\ prevCall = "none"
  /\ result = NoResult
  /\ pending = NoPending

(***************************************************************************)
(* browser/launcher.ts: BrowserLauncher.  One profile is launched.  The    *)
(* browser has the pages that are open when puppeteer.launch resolves and  *)
(* one page created later, by launcher.newPage or by a page script's       *)
(* window.open.  Every await of applyFingerprint is a step of its own; a   *)
(* host call (evaluateOnNewDocument, evaluate, createCDPSession, send) can *)
(* reject, at most MaxFailures times in a behaviour.                       *)
(***************************************************************************)
MaxFailures == 1

InitialPages == <<"i1", "i2">>
CreatedPage == "c1"
PageIds == {InitialPages[i] : i \in 1..Len(InitialPages)} \cup {CreatedPage}

Payloads == <<"canvas", "webgl", "hardware">>
PayloadSet == {Payloads[i] : i \in 1..Len(Payloads)}

\* No payload of this kind has wrapped the APIs of the document.
NotInstalled == [present |-> FALSE]

\* generateInjectionScript(profile): the configuration each of the three
\* payloads is synthesized with.
generateInjectionScript(profile) ==
  [canvas |-> profile.canvas, webgl |-> profile.webgl,
   hardware |-> profile.hardware]

\* A document: the markers the payloads have set on window, how many times
\* each payload has wrapped its APIs, how many times the combined script has
\* run, whether a page script has run, and whether one ran while a payload
\* was not installed; navigator.webdriver masked; how many times
\* permissions.query has been wrapped; the configuration of the payload that
\* wrapped the APIs first (the one page script observes), per payload.
FreshDoc(url) ==
  [url |-> url, markers |-> {}, wraps |-> [p \in PayloadSet |-> 0], runs |-> 0,
   scriptRan |-> FALSE, exposed |-> FALSE, wdMasked |-> FALSE, hideDepth |-> 0,
   installed |-> [p \in PayloadSet |-> NotInstalled]]

\* if (window.__canvasNoiseApplied) return;  and its two siblings
MarkerSet_never(doc, payload) == FALSE

MarkerSet(doc, payload) == payload \in doc.markers

\* One payload of the combined script: test the marker, set it, wrap.
RunPayload(doc, payload, script) ==
  IF MarkerSet(doc, payload)
    THEN doc
    ELSE [doc EXCEPT !.markers = @ \cup {payload}, !.wraps[payload] = @ + 1,
                     !.installed[payload] =
                        IF doc.wraps[payload] = 0 THEN script[payload] ELSE @]

\* The combined script: the three payloads joined, run in order.
RECURSIVE RunPayloads(_, _, _)
RunPayloads(doc, i, script) ==
  IF i > Len(Payloads) THEN doc
  ELSE RunPayloads(RunPayload(doc, Payloads[i], script), i + 1, script)

RunInjectionScript(doc, script) ==
  [RunPayloads(doc, 1, script) EXCEPT !.runs = @ + 1]

\* The scripts registered with evaluateOnNewDocument, run in the order of
\* their registration, from the i-th on.
RECURSIVE RunHooks(_, _, _)
RunHooks(doc, scripts, i) ==
  IF i > Len(scripts) THEN doc
  ELSE RunHooks(RunInjectionScript(doc, scripts[i]), scripts, i + 1)

\* Every export goes through the toDataURL wrappers installed in the
\* document, each of which adds noise before calling the one it wrapped.
NoisePerExport(doc) == doc.wraps["canvas"]

ClosedPage ==
  [open |-> FALSE, kind |-> "none", hooks |-> 0, wdHooks |-> 0, hideHooks |-> 0,
   uaOverride |-> "", doc |-> FreshDoc("blank"), scripts |-> <<>>]

OpenPage(kind, url) == [ClosedPage EXCEPT !.open = TRUE, !.kind = kind,
                                         !.doc = FreshDoc(url)]

\* A new document of the page: the scripts registered with
\* evaluateOnNewDocument run before any script of the document.
NewDocument(page, url) ==
  [RunHooks(FreshDoc(url), page.scripts, 1) EXCEPT
     !.wdMasked = page.wdHooks > 0,
     !.hideDepth = page.hideHooks]

\* applyFingerprint: its awaits in order.
Steps ==
  <<"hook", "eval", "cdp", "ua", "wdHook", "wdEval", "hideHook", "hideEval">>
StepSet == {Steps[i] : i \in 1..Len(Steps)}

NextPc(pc) ==
  LET i == CHOOSE k \in 1..Len(Steps) : Steps[k] = pc
  IN  IF i = Len(Steps) THEN "done" ELSE Steps[i + 1]

\* The awaits inside try { } catch (e) {}: the three page.evaluate calls.
Caught(pc) == pc \in {"eval", "wdEval", "hideEval"}

\* What the host call of step pc of applyFingerprint(page, profile) does to
\* the page when it resolves.
Effect(pc, page, profile) ==
  CASE pc = "hook"     -> [page EXCEPT
                             !.hooks = @ + 1,
                             !.scripts = Append(@, generateInjectionScript(profile))]
    [] pc = "eval"     -> [page EXCEPT
                             !.doc = RunInjectionScript(@, generateInjectionScript(profile))]
    [] pc = "cdp"      -> page
    [] pc = "ua"       -> [page EXCEPT !.uaOverride = profile.userAgent]
    [] pc = "wdHook"   -> [page EXCEPT !.wdHooks = @ + 1]
    [] pc = "wdEval"   -> [page EXCEPT !.doc.wdMasked = TRUE]
    [] pc = "hideHook" -> [page EXCEPT !.hideHooks = @ + 1]
    [] pc = "hideEval" -> [page EXCEPT !.doc.hideDepth = @ + 1]

TaskIds == {"launch", "handler", "wrapper", "newPage"}
NoSession == [userAgent |-> ""]

\* A call applyFingerprint(page, profile): its page, its profile argument,
\* the await it stands at.
IdleTask ==
  [page |-> "none", pc |-> "idle", failedAt |-> "none", profile |-> NoSession]
StartTask(page, profile) ==
  [page |-> page, pc |-> "hook", failedAt |-> "none", profile |-> profile]

\* launch(profileId, options), up to the await of puppeteer.launch: the
\* profile is read, lastUsed is written, then the executable is looked for.
\* chrome: options.chromePath || findChrome() found an executable.
Launch(id, chrome) ==
  /\ launchPc = "idle"
  /\ IF ~Exists(id)
       THEN /\ launchPc' = "rejected"
            /\ UNCHANGED <<session, profiles, lastOp>>
       ELSE /\ session' = IF chrome THEN get(id) ELSE session
            /\ profiles' = update(id, [lastUsed |-> now])
            /\ lastOp' = "update"
            /\ launchPc' = IF chrome THEN "starting" ELSE "rejected"
  /\ UNCHANGED <<launchQueue, activeBrowsers, pages, tasks, newPagePc,
                 failures, now, userData, uaVars, canvasVars,
                 payloadVars,
                 extVars>>

\* puppeteer.launch resolves with n pages open: the browser is stored, the
\* newPage wrapper and the targetcreated handler are installed, browser.pages()
\* is read and the loop starts with the first page.
LaunchResolved(id, n) ==
  /\ launchPc = "starting"
  /\ activeBrowsers' = activeBrowsers \cup {id}
  /\ pages' = [p \in PageIds |->
                 IF \E i \in 1..n : InitialPages[i] = p
                   THEN OpenPage("initial", "blank") ELSE pages[p]]
  /\ launchQueue' = SubSeq(InitialPages, 1, n)
  /\ tasks' = [tasks EXCEPT !["launch"] = StartTask(InitialPages[1], session)]
  /\ launchPc' = "applying"
  /\ UNCHANGED <<session, newPagePc, failures, profileVars, uaVars, canvasVars,
                 payloadVars,
                 extVars>>

\* puppeteer.launch rejects.
LaunchRejected ==
  /\ launchPc = "starting"
  /\ failures < MaxFailures
  /\ failures' = failures + 1
  /\ launchPc' = "rejected"
  /\ UNCHANGED <<launchQueue, session, activeBrowsers, pages, tasks, newPagePc,
                 profileVars, uaVars, canvasVars,
                 payloadVars,
                 extVars>>

\* for (const page of pages) { await this.applyFingerprint(page, profile); }
\* return browser;
LaunchLoop ==
  /\ launchPc = "applying"
  /\ tasks["launch"].pc \in {"done", "failed"}
  /\ IF tasks["launch"].pc = "failed"
       THEN /\ launchPc' = "rejected"
            /\ UNCHANGED <<launchQueue, tasks>>
       ELSE /\ launchQueue' = Tail(launchQueue)
            /\ IF Tail(launchQueue) = <<>>
                 THEN launchPc' = "returned" /\ UNCHANGED tasks
                 ELSE /\ launchPc' = "applying"
                      /\ tasks' = [tasks EXCEPT
                                     !["launch"] =
                                        StartTask(launchQueue[2], session)]
  /\ UNCHANGED <<session, activeBrowsers, pages, newPagePc, failures,
                 profileVars, uaVars, canvasVars,
                 payloadVars,
                 extVars>>

\* One await of applyFingerprint resolves (ok) or rejects.
ApplyStep(t, ok) ==
  LET pc == tasks[t].pc
      p  == tasks[t].page
  IN  /\ pc \in StepSet
      /\ IF ok
           THEN /\ pages' = [pages EXCEPT ![p] = Effect(pc, @, tasks[t].profile)]
                /\ tasks' = [tasks EXCEPT ![t].pc = NextPc(pc)]
                /\ UNCHANGED failures
           ELSE /\ failures < MaxFailures
                /\ failures' = failures + 1
                /\ tasks' = [tasks EXCEPT
                               ![t] = IF Caught(pc)
                                        THEN [@ EXCEPT !.pc = NextPc(pc)]
                                        ELSE [@ EXCEPT !.pc = "failed",
                                                       !.failedAt = pc]]
                /\ UNCHANGED pages
      /\ UNCHANGED <<launchPc, launchQueue, session, activeBrowsers, newPagePc,
                     profileVars, uaVars, canvasVars,
                 payloadVars,
                 extVars>>

\* launcher.newPage(profileId), up to the await of browser.newPage(): the
\* browser is looked up, the profile is read from the store; the caller has
\* awaited launch.
NewPage(id) ==
  /\ newPagePc = "idle"
  /\ launchPc \in {"returned", "rejected"}
  /\ ~pages[CreatedPage].open
  /\ IF id \notin activeBrowsers \/ ~Exists(id)
       THEN newPagePc' = "rejected" /\ UNCHANGED tasks
       ELSE /\ newPagePc' = "creating"
            /\ tasks' = [tasks EXCEPT !["newPage"].profile = get(id)]
  /\ UNCHANGED <<launchPc, launchQueue, session, activeBrowsers, pages,
                 failures, profileVars, uaVars, canvasVars,
                 payloadVars,
                 extVars>>

\* originalNewPage() resolves inside the wrapper: the page exists, the
\* browser emits targetcreated, the wrapper calls applyFingerprint.
NewPageCreated ==
  /\ newPagePc = "creating"
  /\ pages' = [pages EXCEPT ![CreatedPage] = OpenPage("newPage", "blank")]
  /\ tasks' = [tasks EXCEPT
                 !["handler"] = [StartTask(CreatedPage, session)
                                   EXCEPT !.pc = "target"],
                 !["wrapper"] = StartTask(CreatedPage, session)]
  /\ newPagePc' = "wrapperApply"
  /\ UNCHANGED <<launchPc, launchQueue, session, activeBrowsers, failures,
                 profileVars, uaVars, canvasVars,
                 payloadVars,
                 extVars>>

\* The wrapper's applyFingerprint settles: the wrapper returns the page and
\* launcher.newPage calls applyFingerprint itself, or the rejection passes on.
WrapperReturns ==
  /\ newPagePc = "wrapperApply"
  /\ tasks["wrapper"].pc \in {"done", "failed"}
  /\ IF tasks["wrapper"].pc = "failed"
       THEN newPagePc' = "rejected" /\ UNCHANGED tasks
       ELSE /\ newPagePc' = "apply"
            /\ tasks' = [tasks EXCEPT
                           !["newPage"] = StartTask(CreatedPage, @.profile)]
  /\ UNCHANGED <<launchPc, launchQueue, session, activeBrowsers, pages,
                 failures, profileVars, uaVars, canvasVars,
                 payloadVars,
                 extVars>>

NewPageReturns ==
  /\ newPagePc = "apply"
  /\ tasks["newPage"].pc \in {"done", "failed"}
  /\ newPagePc' = IF tasks["newPage"].pc = "failed" THEN "rejected"
                                                     ELSE "returned"
  /\ UNCHANGED <<launchPc, launchQueue, session, activeBrowsers, pages, tasks,
                 failures, profileVars, uaVars, canvasVars,
                 payloadVars,
                 extVars>>

\* The targetcreated handler: const page = await target.page() resolves.
HandlerTargetPage ==
  /\ tasks["handler"].pc = "target"
  /\ tasks' = [tasks EXCEPT !["handler"].pc = "hook"]
  /\ UNCHANGED <<launchPc, launchQueue, session, activeBrowsers, pages,
                 newPagePc, failures, profileVars, uaVars, canvasVars,
                 payloadVars,
                 extVars>>

\* Who holds the page can navigate it: a popup loads on its own; the caller
\* has the initial pages once launch has settled (launch's return value or
\* getBrowser), the new page once newPage has returned it.
CanDrive(p) ==
  CASE pages[p].kind = "popup"   -> TRUE
    [] pages[p].kind = "initial" -> launchPc \in {"returned", "rejected"}
    [] pages[p].kind = "newPage" -> newPagePc = "returned"
    [] OTHER -> FALSE

\* page.goto(url): a new document, the registered hooks run in it.
Navigate(p) ==
  /\ pages[p].open
  /\ CanDrive(p)
  /\ pages' = [pages EXCEPT ![p].doc = NewDocument(pages[p], "site")]
  /\ UNCHANGED <<launchPc, launchQueue, session, activeBrowsers, tasks,
                 newPagePc, failures, profileVars, uaVars, canvasVars,
                 payloadVars,
                 extVars>>

\* The first script of the document runs.
RunPageScript(p) ==
  /\ pages[p].open
  /\ pages[p].doc.url = "site"
  /\ ~pages[p].doc.scriptRan
  /\ pages' = [pages EXCEPT
                 ![p].doc.scriptRan = TRUE,
                 ![p].doc.exposed = (pages[p].doc.markers # PayloadSet)]
  /\ UNCHANGED <<launchPc, launchQueue, session, activeBrowsers, tasks,
                 newPagePc, failures, profileVars, uaVars, canvasVars,
                 payloadVars,
                 extVars>>

\* A page script calls window.open(url): the popup exists and loads, the
\* browser emits targetcreated.
OpenPopup(opener) ==
  /\ pages[opener].open
  /\ pages[opener].doc.scriptRan
  /\ ~pages[CreatedPage].open
  /\ newPagePc = "idle"
  /\ pages' = [pages EXCEPT ![CreatedPage] = OpenPage("popup", "site")]
  /\ tasks' = [tasks EXCEPT
                 !["handler"] = [StartTask(CreatedPage, session)
                                   EXCEPT !.pc = "target"]]
  /\ UNCHANGED <<launchPc, launchQueue, session, activeBrowsers, newPagePc,
                 failures, profileVars, uaVars, canvasVars,
                 payloadVars,
                 extVars>>

\* The stream of the regenerateFingerprint call made while the browser is
\* open.
RegenerateStream == [a |-> 5, b |-> 1, den |-> RandDen]

\* The caller regenerates the fingerprint of the launched profile after
\* launch has returned and before it asks for a new page.
RegenerateWhileOpen ==
  /\ launchPc = "returned"
  /\ newPagePc = "idle"
  /\ lastOp # "regenerateFingerprint"
  /\ \E id \in activeBrowsers : RegenerateFingerprint(id, RegenerateStream)

IdleLaunch ==
  /\ launchPc = "idle"
  /\ launchQueue = <<>>
  /\ session = NoSession
  /\ activeBrowsers = {}
  /\ pages = [p \in PageIds |-> ClosedPage]
  /\ tasks = [t \in TaskIds |-> IdleTask]
  /\ newPagePc = "idle"
  /\ failures = 0

\* A profile that create has stored.
StoredProfile ==
  LET fp == FingerprintTable["mac", [a |-> 3, b |-> 1, den |-> RandDen]]
  IN  [ id |-> "p1", name |-> "account1", createdAt |-> 0, lastUsed |-> 0,
        userAgent |-> fp.userAgent, platform |-> "mac", canvas |-> fp.canvas,
        webgl |-> fp.webgl, hardware |-> fp.hardware, proxy |-> NoProxy ]

(***************************************************************************)
(* fingerprint/webgl.ts: the webgl payload in a document.  The payload     *)
(* runs before any script of the page; page script then asks canvases for  *)
(* contexts and queries them.                                              *)
(***************************************************************************)
UNMASKED_VENDOR_WEBGL == 37445
UNMASKED_RENDERER_WEBGL == 37446

\* gl.VENDOR, gl.RENDERER, gl.MAX_TEXTURE_SIZE and the two identity
\* parameters.
GLParameters ==
  {7936, 7937, 3379, UNMASKED_VENDOR_WEBGL, UNMASKED_RENDERER_WEBGL}

\* The getParameter of the host's context.
NativeGetParameter(parameter) ==
  CASE parameter = 7936  -> "WebKit"
    [] parameter = 7937  -> "WebKit WebGL"
    [] parameter = 3379  -> "16384"
    [] parameter = UNMASKED_VENDOR_WEBGL   -> "Google Inc. (Host)"
    [] parameter = UNMASKED_RENDERER_WEBGL -> "ANGLE (Host GPU)"

\* The function getParameterProxy(originalFn, target) returns, applied to
\* parameter; original is what originalFn.call(target, parameter) returns.
getParameterProxy_passthrough(config, parameter, original) == original

getParameterProxy(config, parameter, original) ==
  IF parameter = 37445 THEN config.vendor
  ELSE IF parameter = 37446 THEN config.renderer
  ELSE original

\* context.getParameter(parameter) after the payload's getContext has
\* wrapped the context's getParameter `wraps` times, each wrapper around
\* the function it found on the context.
RECURSIVE ContextGetParameter(_, _, _)
ContextGetParameter(config, wraps, parameter) ==
  IF wraps = 0 THEN NativeGetParameter(parameter)
  ELSE getParameterProxy(config, parameter,
                         ContextGetParameter(config, wraps - 1, parameter))

GLExtensions == {"WEBGL_debug_renderer_info", "OES_texture_float"}

NullExtension == [name |-> "null"]

DebugRendererInfo ==
  [ UNMASKED_VENDOR_WEBGL   |-> 37445,
    UNMASKED_RENDERER_WEBGL |-> 37446 ]

\* The getExtension of the host's context; supported: the host exposes
\* WEBGL_debug_renderer_info.
NativeGetExtension(name, supported) ==
  IF name = "WEBGL_debug_renderer_info"
    THEN IF supported
           THEN [ UNMASKED_VENDOR_WEBGL   |-> UNMASKED_VENDOR_WEBGL,
                  UNMASKED_RENDERER_WEBGL |-> UNMASKED_RENDERER_WEBGL ]
           ELSE NullExtension
    ELSE [name |-> name]

\* context.getExtension(name) after `wraps` wrappings.
RECURSIVE ContextGetExtension(_, _, _)
ContextGetExtension(wraps, name, supported) ==
  IF wraps = 0 THEN NativeGetExtension(name, supported)
  ELSE IF name = "WEBGL_debug_renderer_info"
         THEN DebugRendererInfo
         ELSE ContextGetExtension(wraps - 1, name, supported)

GLCanvases == {"k1", "k2"}
ContextTypes == {"2d", "webgl", "webgl2", "experimental-webgl"}

\* The context mode a context type puts a canvas in.
ContextMode(type) == IF type = "experimental-webgl" THEN "webgl" ELSE type

\* How many getContext calls for a webgl type one canvas gets.
MaxGetContext == 3

NewCanvas == [mode |-> "none", wraps |-> 0]

\* originalGetContext: the context of the canvas's mode (the same object on
\* every call), or null when the canvas is in another mode.
originalGetContext(canvas, type) ==
  IF canvas.mode \in {"none", ContextMode(type)}
    THEN [context |-> TRUE, canvas |-> [canvas EXCEPT !.mode = ContextMode(type)]]
    ELSE [context |-> FALSE, canvas |-> canvas]

\* The getContext of the page: the payload's override when the payload is
\* enabled, the host's otherwise.
getContext(config, canvas, type) ==
  LET r == originalGetContext(canvas, type)
  IN  IF config.enabled /\ r.context
         /\ type \in {"webgl", "webgl2", "experimental-webgl"}
        THEN [r.canvas EXCEPT !.wraps = @ + 1]
        ELSE r.canvas

NoQuery == [op |-> "none"]

\* canvas.getContext(type)
GetContext(c, type) ==
  /\ glCanvas[c].wraps < MaxGetContext
  /\ glCanvas' = [glCanvas EXCEPT ![c] = getContext(glCfg.config, @, type)]
  /\ glResult' = NoQuery
  /\ UNCHANGED <<glCfg, hwCfg, hostZone, tzResult, uaVars, profileVars,
                 canvasVars, launchVars,
                 extVars>>

\* gl.getParameter(parameter) on the context of canvas c.
GetParameter(c, parameter) ==
  /\ glCanvas[c].mode \in {"webgl", "webgl2"}
  /\ glResult' = [op |-> "getParameter", canvas |-> c, arg |-> parameter,
                  value |-> ContextGetParameter(glCfg.config, glCanvas[c].wraps,
                                                parameter)]
  /\ UNCHANGED <<glCfg, glCanvas, hwCfg, hostZone, tzResult, uaVars,
                 profileVars, canvasVars, launchVars,
                 extVars>>

\* gl.getExtension(name) on the context of canvas c.
GetExtension(c, name) ==
  /\ glCanvas[c].mode \in {"webgl", "webgl2"}
  /\ glResult' = [op |-> "getExtension", canvas |-> c, arg |-> name,
                  value |-> ContextGetExtension(glCanvas[c].wraps, name,
                                                glCfg.debugInfo)]
  /\ UNCHANGED <<glCfg, glCanvas, hwCfg, hostZone, tzResult, uaVars,
                 profileVars, canvasVars, launchVars,
                 extVars>>

\* The webgl configs of the bundles: every GPU of the table, enabled as
\* getDefaultWebGLConfig makes them or disabled by an update of the profile.
WebGLConfigs ==
  { [enabled |-> e, vendor |-> GPU_CONFIGS[i].vendor,
     renderer |-> GPU_CONFIGS[i].renderer] :
      e \in BOOLEAN, i \in 1..Len(GPU_CONFIGS) }

(***************************************************************************)
(* fingerprint/hardware.ts: the timezone override of the hardware payload. *)
(***************************************************************************)
\* The offsets table of getTimezoneOffset(tz), in minutes.
offsets ==
  ("America/New_York" :> 300) @@ ("America/Los_Angeles" :> 480)
    @@ ("America/Chicago" :> 360) @@ ("Europe/London" :> 0)
    @@ ("Europe/Paris" :> -60) @@ ("Europe/Berlin" :> -60)
    @@ ("Asia/Tokyo" :> -540) @@ ("Asia/Shanghai" :> -480)
    @@ ("Asia/Singapore" :> -480) @@ ("Australia/Sydney" :> -660)

\* return offsets[tz] || 0: a missing entry and an entry of 0 both give 0.
getTimezoneOffset_noTable(tz) == 0

getTimezoneOffset(tz) ==
  IF tz \in DOMAIN offsets /\ offsets[tz] # 0 THEN offsets[tz] ELSE 0

\* The zones a host can be in, and the offset its Date reports.
HostZones == {"UTC", "Asia/Kolkata"}
NativeTimezoneOffset(zone) == IF zone = "Asia/Kolkata" THEN -330 ELSE 0

\* The timeZone page script passes in the options of Intl.DateTimeFormat
\* ("" when it passes none).
OptionZones == {"", "UTC", "America/New_York", "Asia/Tokyo"}

\* The zone new originalDateTimeFormat(locales, options) resolves to.
originalDateTimeFormat(timeZone, host) == IF timeZone = "" THEN host ELSE timeZone

\* Intl.DateTimeFormat(locales, options) of the page: the zone the format
\* resolves to.  options.timeZone = options.timeZone || config.timezone
DateTimeFormat(config, timeZone, host) ==
  IF config.enabled
    THEN originalDateTimeFormat(IF timeZone # "" THEN timeZone
                                                 ELSE config.timezone, host)
    ELSE originalDateTimeFormat(timeZone, host)

\* new Date().getTimezoneOffset() in the page.
DateGetTimezoneOffset(config, host) ==
  IF config.enabled THEN getTimezoneOffset(config.timezone)
                    ELSE NativeTimezoneOffset(host)

GetTimezoneOffsetCall ==
  /\ tzResult' = [op |-> "getTimezoneOffset", timeZone |-> "",
                  offset |-> DateGetTimezoneOffset(hwCfg, hostZone),
                  zone |-> ""]
  /\ UNCHANGED <<glCfg, glCanvas, glResult, hwCfg, hostZone, uaVars,
                 profileVars, canvasVars, launchVars,
                 extVars>>

\* new Intl.DateTimeFormat(locales, { timeZone }).resolvedOptions().timeZone
DateTimeFormatCall(timeZone) ==
  /\ tzResult' = [op |-> "DateTimeFormat", timeZone |-> timeZone, offset |-> 0,
                  zone |-> DateTimeFormat(hwCfg, timeZone, hostZone)]
  /\ UNCHANGED <<glCfg, glCanvas, glResult, hwCfg, hostZone, uaVars,
                 profileVars, canvasVars, launchVars,
                 extVars>>

TimezoneConfigs ==
  [enabled : BOOLEAN, timezone : {TIMEZONES[i] : i \in 1..Len(TIMEZONES)}]

IdlePayloads ==
  /\ glCfg = [config |-> [enabled |-> FALSE], debugInfo |-> FALSE]
  /\ glCanvas = <<>>
  /\ glResult = NoQuery
  /\ hwCfg = [enabled |-> FALSE]
  /\ hostZone = "UTC"
  /\ tzResult = NoQuery

(***************************************************************************)
(* network/warp.ts: ProxyManager.  proxies is the array, currentIndex the  *)
(* private index of getNext.  proxyLog keeps the positions the last calls  *)
(* of getNext returned while the array had its present length, at most as  *)
(* many as the array is long.                                              *)
(***************************************************************************)
MaxProxies == 3

ProxyPool ==
  { [type |-> "socks5", host |-> "10.0.0.1", port |-> 1080],
    [type |-> "http", host |-> "10.0.0.2", port |-> 8080] }

\* The arrays addProxies is called with: empty, one or two proxies.
ProxyLists ==
  {<<>>} \cup {<<p>> : p \in ProxyPool}
         \cup {<<p, q>> : p \in ProxyPool, q \in ProxyPool}

NullProxy == [type |-> "null"]
UndefinedProxy == [type |-> "undefined"]

\* this.proxies.push(...)
Push(list) ==
  /\ Len(proxies) + Len(list) <= MaxProxies
  /\ proxies' = proxies \o list
  /\ proxyLog' = IF list = <<>> THEN proxyLog ELSE <<>>
  /\ UNCHANGED <<currentIndex, coreVars, hideVars, gpuVars, browserVars,
                 warpVars>>

\* addProxy(proxy)
AddProxy(proxy) ==
  /\ Push(<<proxy>>)
  /\ proxyResult' = [op |-> "addProxy"]

\* addProxies(proxies)
AddProxies(list) ==
  /\ Push(list)
  /\ proxyResult' = [op |-> "addProxies"]

\* (this.currentIndex + 1) % this.proxies.length
NextIndex_noWrap(index, length) == index + 1

NextIndex(index, length) == (index + 1) % length

\* this.proxies[index]
ProxyAt(list, index) ==
  IF index + 1 \in DOMAIN list THEN list[index + 1] ELSE UndefinedProxy

\* The last `length` entries of the log with one more position.
Logged(log, position, length) ==
  LET all == Append(log, position)
  IN  IF Len(all) <= length THEN all
      ELSE SubSeq(all, Len(all) - length + 1, Len(all))

\* getNext()
GetNext ==
  IF Len(proxies) = 0
    THEN /\ proxyResult' = [op |-> "getNext", proxy |-> NullProxy]
         /\ UNCHANGED <<proxies, currentIndex, proxyLog, coreVars, hideVars,
                        gpuVars, browserVars, warpVars>>
    ELSE /\ proxyResult' = [op |-> "getNext",
                            proxy |-> ProxyAt(proxies, currentIndex)]
         /\ currentIndex' = NextIndex(currentIndex, Len(proxies))
         /\ proxyLog' = Logged(proxyLog, currentIndex + 1, Len(proxies))
         /\ UNCHANGED <<proxies, coreVars, hideVars, gpuVars, browserVars,
                        warpVars>>

(***************************************************************************)
(* network/warp.ts: WarpManager.getConfigForProfile.  A call stands at     *)
(* its await of isPortAvailable (probing) or at the await of               *)
(* findAvailablePort in getConfigForProfile (found); calls interleave at   *)
(* these awaits.  isPortAvailable opens a server on the port and closes it *)
(* again: a port is unavailable when another process of the host listens   *)
(* on it.                                                                  *)
(***************************************************************************)
DefaultBasePort == 40000
PortScan == 100

WarpProfiles == {"p1", "p2"}
WarpCallIds == {"c1", "c2", "c3"}

IdleCall == [pc |-> "idle"]

\* isPortAvailable(port)
isPortAvailable(port) == port \notin busyPorts

\* getConfigForProfile(profileId), up to its first await: the instance is
\* read from the map; without one, findAvailablePort starts at
\* basePort + instances.size.
GetConfigForProfile(c, profileId) ==
  /\ warpCalls[c].pc = "idle"
  /\ IF profileId \in DOMAIN instances
       THEN /\ warpCalls' = [warpCalls EXCEPT
                               ![c] = [pc |-> "returned",
                                       profileId |-> profileId,
                                       port |-> instances[profileId]]]
            /\ warpReturned' =
                 warpReturned \cup {<<profileId, instances[profileId]>>}
       ELSE /\ warpCalls' =
                 [warpCalls EXCEPT
                    ![c] = [pc |-> "probing", profileId |-> profileId,
                            port |-> DefaultBasePort
                                       + Cardinality(DOMAIN instances),
                            basePort |-> DefaultBasePort
                                           + Cardinality(DOMAIN instances)]]
            /\ UNCHANGED warpReturned
  /\ UNCHANGED <<instances, busyPorts, coreVars, hideVars, gpuVars,
                 browserVars, proxyVars>>

\* findAvailablePort: await isPortAvailable(port) resolves; the loop returns
\* the port, goes on to the next, or throws after basePort + 99.
PortProbed(c) ==
  LET call == warpCalls[c]
  IN  /\ call.pc = "probing"
      /\ warpCalls' =
           [warpCalls EXCEPT
              ![c] = IF isPortAvailable(call.port)
                       THEN [call EXCEPT !.pc = "found"]
                     ELSE IF call.port + 1 < call.basePort + PortScan
                       THEN [call EXCEPT !.port = @ + 1]
                     ELSE [call EXCEPT !.pc = "rejected"]]
      /\ UNCHANGED <<instances, busyPorts, warpReturned, coreVars, hideVars,
                     gpuVars, browserVars, proxyVars>>

\* getConfigForProfile after await findAvailablePort: the instance is made
\* and stored, the config is returned.
InstanceStored(c) ==
  LET call == warpCalls[c]
  IN  /\ call.pc = "found"
      /\ instances' =
           [id \in (DOMAIN instances) \cup {call.profileId} |->
              IF id = call.profileId THEN call.port ELSE instances[id]]
      /\ warpReturned' = warpReturned \cup {<<call.profileId, call.port>>}
      /\ warpCalls' = [warpCalls EXCEPT ![c].pc = "returned"]
      /\ UNCHANGED <<busyPorts, coreVars, hideVars, gpuVars, browserVars,
                     proxyVars>>

(***************************************************************************)
(* browser/launcher.ts: the browsers the launcher holds.  The caller       *)
(* awaits every call on the launcher before it makes the next, so a call   *)
(* is one step; what the host does in it (the executable is found,         *)
(* puppeteer.launch and browser.close resolve or reject, applyFingerprint  *)
(* rejects) is the step's parameter.  activeBrowsers is a Map: its entries *)
(* in insertion order.                                                     *)
(***************************************************************************)
MaxBrowsers == 3

BrowserProfiles == {"p1", "p2"}
LaunchOutcomes == {"started", "startFailed", "applyFailed"}

Undefined == [browser |-> "undefined"]

\* Map.prototype.has / get / set / delete on the entries.
MapHas(map, key) == \E i \in DOMAIN map : map[i].profileId = key

MapGet(map, key) ==
  IF MapHas(map, key)
    THEN (CHOOSE e \in {map[i] : i \in DOMAIN map} : e.profileId = key).browser
    ELSE Undefined

MapSet(map, key, value) ==
  IF MapHas(map, key)
    THEN [i \in DOMAIN map |->
            IF map[i].profileId = key
              THEN [profileId |-> key, browser |-> value] ELSE map[i]]
    ELSE Append(map, [profileId |-> key, browser |-> value])

MapDelete(map, key) ==
  LET Keep(e) == e.profileId # key IN SelectSeq(map, Keep)

\* How a call settled.
Settled(op, key, how, value) ==
  [op |-> op, profileId |-> key, settled |-> how, value |-> value]

\* launch(profileId, options)
LaunchCall(profileId, chrome, outcome) ==
  LET browser == [n |-> launched + 1, profileId |-> profileId]
  IN  /\ launched < MaxBrowsers
      /\ IF ~Exists(profileId)
           THEN /\ launcherResult' =
                     Settled("launch", profileId, "rejected",
                             "Profile not found")
                /\ UNCHANGED <<browserMap, running, launched, profiles,
                               lastOp>>
           ELSE /\ profiles' = update(profileId, [lastUsed |-> now])
                /\ lastOp' = "update"
                /\ IF ~chrome \/ outcome = "startFailed"
                     THEN /\ launcherResult' =
                               Settled("launch", profileId, "rejected",
                                       IF ~chrome
                                         THEN "Chrome executable not found"
                                         ELSE "puppeteer.launch")
                          /\ UNCHANGED <<browserMap, running, launched>>
                     ELSE /\ launched' = launched + 1
                          /\ running' = running \cup {browser}
                          /\ browserMap' = MapSet(browserMap, profileId, browser)
                          /\ launcherResult' =
                               IF outcome = "applyFailed"
                                 THEN Settled("launch", profileId, "rejected",
                                              "applyFingerprint")
                                 ELSE Settled("launch", profileId, "resolved",
                                              browser)
      /\ UNCHANGED <<now, userData, uaVars, canvasVars, launchVars,
                     payloadVars, hideVars, gpuVars, warpVars, proxyVars>>

\* close(profileId); ok: browser.close() resolves.
Close(profileId, ok) ==
  LET browser == MapGet(browserMap, profileId)
  IN  /\ IF browser = Undefined
           THEN /\ launcherResult' =
                     Settled("close", profileId, "resolved", Undefined)
                /\ UNCHANGED <<browserMap, running>>
           ELSE IF ok
             THEN /\ running' = running \ {browser}
                  /\ browserMap' = MapDelete(browserMap, profileId)
                  /\ launcherResult' =
                       Settled("close", profileId, "resolved", Undefined)
             ELSE /\ launcherResult' =
                       Settled("close", profileId, "rejected", "browser.close")
                  /\ UNCHANGED <<browserMap, running>>
      /\ UNCHANGED <<launched, coreVars, hideVars, gpuVars, warpVars,
                     proxyVars>>

\* closeAll(); failAt: the entry whose browser.close() rejects, 0 for none.
\* The loop closes the browsers of the entries before it; clear() runs
\* after the loop.
CloseAll(failAt) ==
  LET last == IF failAt = 0 THEN Len(browserMap) ELSE failAt - 1
      closed == {browserMap[i].browser : i \in 1..last}
  IN  /\ failAt <= Len(browserMap)
      /\ running' = running \ closed
      /\ IF failAt = 0
           THEN /\ browserMap' = <<>>
                /\ launcherResult' =
                     Settled("closeAll", "all", "resolved", Undefined)
           ELSE /\ launcherResult' =
                     Settled("closeAll", "all", "rejected", "browser.close")
                /\ UNCHANGED browserMap
      /\ UNCHANGED <<launched, coreVars, hideVars, gpuVars, warpVars,
                     proxyVars>>

\* getBrowser(profileId)
GetBrowser(profileId) ==
  /\ launcherResult' =
       Settled("getBrowser", profileId, "returned",
               MapGet(browserMap, profileId))
  /\ UNCHANGED <<browserMap, running, launched, coreVars, hideVars, gpuVars,
                 warpVars, proxyVars>>

\* newPage(profileId); ok: browser.newPage() and applyFingerprint resolve.
NewPageCall(profileId, ok) ==
  /\ launcherResult' =
       IF MapGet(browserMap, profileId) = Undefined
         THEN Settled("newPage", profileId, "rejected", "No active browser")
       ELSE IF ~Exists(profileId)
         THEN Settled("newPage", profileId, "rejected", "Profile not found")
       ELSE IF ok /\ MapGet(browserMap, profileId) \in running
         THEN Settled("newPage", profileId, "resolved", "page")
       ELSE Settled("newPage", profileId, "rejected", "browser.newPage")
  /\ UNCHANGED <<browserMap, running, launched, coreVars, hideVars, gpuVars,
                 warpVars, proxyVars>>

(***************************************************************************)
(* fingerprint/webgl.ts: generateRandomGPU called on its own, for every    *)
(* platform and every value of its one Math.random() call.                 *)
(***************************************************************************)
GenerateRandomGPUCall(platform, st) ==
  /\ gpuCall' = [op |-> "generateRandomGPU", platform |-> platform,
                 st |-> st, gpu |-> generateRandomGPU(platform, st, 0)]
  /\ UNCHANGED <<coreVars, hideVars, browserVars, warpVars, proxyVars>>

(***************************************************************************)
(* browser/launcher.ts: hideAutomationIndicators running in a document.    *)
(* applyFingerprint registers it for new documents and evaluates it in the *)
(* current one, so a document can run it more than once.  An object the    *)
(* payload makes is known by its ref: the run that made it and its place   *)
(* in the data; two objects are the same object when their refs are equal. *)
(***************************************************************************)
MaxHideRuns == 2

PluginData ==
  << [ name |-> "Chrome PDF Plugin", filename |-> "internal-pdf-viewer",
       description |-> "Portable Document Format",
       mimeTypes |-> << [ type |-> "application/x-google-chrome-pdf",
                          suffixes |-> "pdf",
                          description |-> "Portable Document Format" ] >> ],
     [ name |-> "Chrome PDF Viewer",
       filename |-> "mhjfbmdgcfjbbpaeojofohoefgiehjai",
       description |-> "",
       mimeTypes |-> << [ type |-> "application/pdf", suffixes |-> "pdf",
                          description |-> "" ] >> ],
     [ name |-> "Native Client", filename |-> "internal-nacl-plugin",
       description |-> "",
       mimeTypes |-> << [ type |-> "application/x-nacl", suffixes |-> "",
                          description |-> "Native Client Executable" ],
                        [ type |-> "application/x-pnacl", suffixes |-> "",
                          description |->
                            "Portable Native Client Executable" ] >> ] >>

Null == [ref |-> "null"]

\* makeMimeType(mt, enabledPlugin): enabledPlugin is the plugin object.
makeMimeType_detached(mt, enabledPlugin, ref) ==
  [ ref |-> ref, type |-> mt.type, suffixes |-> mt.suffixes,
    description |-> mt.description, enabledPlugin |-> <<0, 0>> ]

makeMimeType(mt, enabledPlugin, ref) ==
  [ ref |-> ref, type |-> mt.type, suffixes |-> mt.suffixes,
    description |-> mt.description, enabledPlugin |-> enabledPlugin ]

\* makePlugin(p): the getters, and the indexed properties 0 .. length - 1
\* (entries[i + 1] is plugin[i]).
makePlugin(p, ref) ==
  [ ref |-> ref, name |-> p.name, filename |-> p.filename,
    description |-> p.description, length |-> Len(p.mimeTypes),
    entries |-> [i \in 1..Len(p.mimeTypes) |->
                   makeMimeType(p.mimeTypes[i], ref, <<ref, i>>)] ]

\* plugin[index]; undefined when the plugin has no such property.
PluginIndex(plugin, index) ==
  IF index + 1 \in DOMAIN plugin.entries
    THEN plugin.entries[index + 1] ELSE Null

\* plugin.item(index): plugin[index] || null
PluginItem(plugin, index) == PluginIndex(plugin, index)

\* plugin.namedItem(name): the first plugin[i], i < plugin.length, of the
\* type.
PluginNamedItem(plugin, name) ==
  LET hits == {i \in 0..(plugin.length - 1) :
                 PluginIndex(plugin, i) # Null
                   /\ PluginIndex(plugin, i).type = name}
  IN  IF hits = {} THEN Null
      ELSE PluginIndex(plugin, CHOOSE i \in hits : \A j \in hits : i <= j)

\* mimeTypes after the plugins 1 .. k have been made: every plugin pushes
\* its entries in order.
RECURSIVE PushedMimeTypes(_, _)
PushedMimeTypes(plugins, k) ==
  IF k = 0 THEN <<>>
  ELSE PushedMimeTypes(plugins, k - 1) \o plugins[k].entries

\* createPluginAndMimeTypeArrays(), in run number `run` of the payload.
createPluginAndMimeTypeArrays(run) ==
  LET plugins == [k \in 1..Len(PluginData) |->
                    makePlugin(PluginData[k], <<run, k>>)]
  IN  [ pluginArray |-> plugins,
        mimeTypeArray |-> PushedMimeTypes(plugins, Len(plugins)) ]

\* The permissions the page asks about, and what the host's
\* permissions.query resolves with.
PermissionNames ==
  {"notifications", "geolocation", "camera", "midi", "clipboard-read"}

HostPermissionState(name) ==
  IF name = "geolocation" THEN "prompt" ELSE "denied"

\* The host's Permissions.prototype.query.  receiver: the call has
\* navigator.permissions as its this value; without it the host rejects the
\* call.
NativeQuery(parameters, receiver) ==
  IF receiver
    THEN [ settled |-> "resolved",
           state |-> HostPermissionState(parameters.name),
           parameters |-> parameters ]
    ELSE [ settled |-> "rejected", error |-> "TypeError: Illegal invocation" ]

Denied == [settled |-> "resolved", state |-> "denied"]

\* window.navigator.permissions.query after the payload has replaced it
\* `wraps` times: every replacement keeps the function it found as
\* originalQuery and calls it as a plain function, originalQuery(parameters).
RECURSIVE PermissionsQuery(_, _, _)
PermissionsQuery(wraps, parameters, receiver) ==
  IF wraps = 0 THEN NativeQuery(parameters, receiver)
  ELSE IF parameters.name = "notifications" THEN Denied
  ELSE PermissionsQuery(wraps - 1, parameters, FALSE)

\* The document before the payload has run: the host's empty plugin list.
FreshHideDoc == [runs |-> 0, plugins |-> <<>>, mimeTypes |-> <<>>]

\* hideAutomationIndicators() runs in the document.
HideAutomationIndicators ==
  LET arrays == createPluginAndMimeTypeArrays(hideDoc.runs + 1)
  IN  /\ hideDoc.runs < MaxHideRuns
      /\ hideDoc' = [ runs |-> hideDoc.runs + 1,
                      plugins |-> arrays.pluginArray,
                      mimeTypes |-> arrays.mimeTypeArray ]
      /\ UNCHANGED <<hideResult, coreVars, gpuVars, browserVars, warpVars,
                     proxyVars>>

\* Page script: navigator.permissions.query({ name })
QueryPermission(name) ==
  /\ hideResult' = [ op |-> "query", name |-> name, runs |-> hideDoc.runs,
                     value |-> PermissionsQuery(hideDoc.runs,
                                                [name |-> name], TRUE) ]
  /\ UNCHANGED <<hideDoc, coreVars, gpuVars, browserVars, warpVars,
                 proxyVars>>

\* Page script reads an entry of navigator.plugins[k - 1]: by index, by
\* item(index) or by namedItem(type).
ReadPlugin(k, how, arg) ==
  LET plugin == hideDoc.plugins[k]
  IN  /\ k \in DOMAIN hideDoc.plugins
      /\ hideResult' =
           [ op |-> how, plugin |-> plugin.ref, arg |-> arg,
             value |-> CASE how = "index" -> PluginIndex(plugin, arg)
                         [] how = "item"  -> PluginItem(plugin, arg)
                         [] how = "namedItem" ->
                              PluginNamedItem(plugin, arg) ]
      /\ UNCHANGED <<hideDoc, coreVars, gpuVars, browserVars, warpVars,
                     proxyVars>>

\* The MIME types of the data.
MimeTypeNames ==
  UNION { {PluginData[k].mimeTypes[i].type :
             i \in 1..Len(PluginData[k].mimeTypes)} :
          k \in 1..Len(PluginData) }

(***************************************************************************)
(* The idle values of the hide payload, the GPU generator, the browser     *)
(* map, the WARP manager and the proxy manager.                            *)
(***************************************************************************)
IdleHide == hideDoc = [runs |-> 0] /\ hideResult = NoQuery

IdleGPU == gpuCall = NoQuery

IdleBrowsers ==
  /\ browserMap = <<>>
  /\ running = {}
  /\ launched = 0
  /\ launcherResult = NoQuery

IdleWarp ==
  /\ instances = <<>>
  /\ warpCalls = <<>>
  /\ busyPorts = {}
  /\ warpReturned = {}

IdleProxy ==
  /\ proxies = <<>>
  /\ currentIndex = 0
  /\ proxyLog = <<>>
  /\ proxyResult = NoQuery

IdleExt == IdleHide /\ IdleGPU /\ IdleBrowsers /\ IdleWarp /\ IdleProxy

(***************************************************************************)
(* The specifications.                                                     *)
(***************************************************************************)
InitUA == IdleUA /\ IdleProfiles /\ IdleCanvas /\ IdleLaunch /\ IdleExt /\ IdlePayloads

NextUA ==
  \/ \E platform \in PlatformType, st \in Streams : GenerateUACall(platform, st)
  \/ \E rand \in ResolveDraws, st \in Streams : GenerateUARandom(rand, st)
  \/ ClientHintsCall

SpecUA == InitUA /\ [][NextUA]_vars

InitProfile ==
  IdleUA /\ IdleProfiles /\ IdleCanvas /\ IdleLaunch /\ IdleExt /\ IdlePayloads

NextProfile ==
  \/ \E id \in ProfileIds, name \in Names, platform \in PlatformType,
        proxy \in ProxyChoices, st \in Streams :
       Create(id, name, platform, proxy, st)
  \/ \E id \in ProfileIds, updates \in UpdateChoices : Update(id, updates)
  \/ \E id \in ProfileIds, st \in Streams : RegenerateFingerprint(id, st)
  \/ \E id \in ProfileIds : Delete(id)
  \/ \E id \in ProfileIds : Clean(id)
  \/ \E id \in ProfileIds : BrowserRun(id)
  \/ Tick

SpecProfile == InitProfile /\ [][NextProfile]_vars

InitCanvas ==
  /\ IdleUA
  /\ IdleProfiles
  /\ IdleLaunch /\ IdleExt
  /\ IdlePayloads
  /\ canvasCfg \in CanvasConfigs
  /\ pixels = BlankCanvas
  /\ lastCall = "none"
  /\ prevCall = "none"
  /\ result = NoResult
  /\ pending = NoPending

NextCanvas ==
  \/ \E p \in 0..(CanvasPixels - 1), color \in Colors : Draw(p, color)
  \/ ToDataURL
  \/ GetImageData
  \/ ToBlob
  \/ BlobCallback

SpecCanvas == InitCanvas /\ [][NextCanvas]_vars

InitNoise ==
  /\ IdleUA /\ IdleProfiles /\ IdleLaunch /\ IdleExt /\ IdlePayloads
  /\ canvasCfg \in [enabled : {TRUE}, noise : 0..MaxNoiseLevel,
                     st : StreamsOf(NoiseGrid)]
  /\ pixels \in {PixelAt(v, alpha) : v \in 0..255, alpha \in {0, 200}}
  /\ lastCall = "none"
  /\ prevCall = "none"
  /\ result = NoResult
  /\ pending = NoPending

NextNoise == AddNoiseCall

SpecNoise == InitNoise /\ [][NextNoise]_vars

InitWebGL ==
  /\ IdleUA /\ IdleProfiles /\ IdleCanvas /\ IdleLaunch /\ IdleExt
  /\ glCfg \in [config : WebGLConfigs, debugInfo : BOOLEAN]
  /\ glCanvas = [c \in GLCanvases |-> NewCanvas]
  /\ glResult = NoQuery
  /\ hwCfg = [enabled |-> FALSE]
  /\ hostZone = "UTC"
  /\ tzResult = NoQuery

NextWebGL ==
  \/ \E c \in GLCanvases, type \in ContextTypes : GetContext(c, type)
  \/ \E c \in GLCanvases, parameter \in GLParameters : GetParameter(c, parameter)
  \/ \E c \in GLCanvases, name \in GLExtensions : GetExtension(c, name)

SpecWebGL == InitWebGL /\ [][NextWebGL]_vars

InitTimezone ==
  /\ IdleUA /\ IdleProfiles /\ IdleCanvas /\ IdleLaunch /\ IdleExt
  /\ glCfg = [config |-> [enabled |-> FALSE], debugInfo |-> FALSE]
  /\ glCanvas = <<>>
  /\ glResult = NoQuery
  /\ hwCfg \in TimezoneConfigs
  /\ hostZone \in HostZones
  /\ tzResult = NoQuery

NextTimezone ==
  \/ GetTimezoneOffsetCall
  \/ \E timeZone \in OptionZones : DateTimeFormatCall(timeZone)

SpecTimezone == InitTimezone /\ [][NextTimezone]_vars

Init ==
  /\ IdleUA
  /\ IdleCanvas
  /\ IdleLaunch /\ IdleExt
  /\ IdlePayloads
  /\ now = MaxClock
  /\ IdleStore
  /\ profiles \in {<<>>, "p1" :> StoredProfile}

Next ==
  \/ \E id \in ProfileIds, chrome \in BOOLEAN : Launch(id, chrome)
  \/ \E id \in ProfileIds, n \in 1..Len(InitialPages) : LaunchResolved(id, n)
  \/ LaunchRejected
  \/ LaunchLoop
  \/ \E t \in TaskIds, ok \in BOOLEAN : ApplyStep(t, ok)
  \/ \E id \in ProfileIds : NewPage(id)
  \/ NewPageCreated
  \/ WrapperReturns
  \/ NewPageReturns
  \/ HandlerTargetPage
  \/ \E p \in PageIds : Navigate(p)
  \/ \E p \in PageIds : RunPageScript(p)
  \/ \E p \in PageIds : OpenPopup(p)
  \/ RegenerateWhileOpen

Spec == Init /\ [][Next]_vars

InitProxy ==
  /\ IdleUA /\ IdleProfiles /\ IdleCanvas /\ IdleLaunch /\ IdlePayloads
  /\ IdleHide /\ IdleGPU /\ IdleBrowsers /\ IdleWarp /\ IdleProxy

NextProxy ==
  \/ \E proxy \in ProxyPool : AddProxy(proxy)
  \/ \E list \in ProxyLists : AddProxies(list)
  \/ GetNext

SpecProxy == InitProxy /\ [][NextProxy]_vars

InitWarp ==
  /\ IdleUA /\ IdleProfiles /\ IdleCanvas /\ IdleLaunch /\ IdlePayloads
  /\ IdleHide /\ IdleGPU /\ IdleBrowsers /\ IdleProxy
  /\ instances = <<>>
  /\ warpCalls = [c \in WarpCallIds |-> IdleCall]
  /\ busyPorts \in SUBSET {DefaultBasePort, DefaultBasePort + 1}
  /\ warpReturned = {}

NextWarp ==
  \/ \E c \in WarpCallIds, profileId \in WarpProfiles :
       GetConfigForProfile(c, profileId)
  \/ \E c \in WarpCallIds : PortProbed(c)
  \/ \E c \in WarpCallIds : InstanceStored(c)

SpecWarp == InitWarp /\ [][NextWarp]_vars

InitBrowsers ==
  /\ IdleUA /\ IdleCanvas /\ IdleLaunch /\ IdlePayloads
  /\ IdleHide /\ IdleGPU /\ IdleBrowsers /\ IdleWarp /\ IdleProxy
  /\ IdleStore
  /\ now = MaxClock
  /\ profiles \in { [id \in {"p1"} |-> StoredProfile],
                    [id \in BrowserProfiles |->
                       [StoredProfile EXCEPT !.id = id]] }

NextBrowsers ==
  \/ \E profileId \in BrowserProfiles, chrome \in BOOLEAN,
        outcome \in LaunchOutcomes :
       LaunchCall(profileId, chrome, outcome)
  \/ \E profileId \in BrowserProfiles, ok \in BOOLEAN : Close(profileId, ok)
  \/ \E failAt \in 0..MaxBrowsers : CloseAll(failAt)
  \/ \E profileId \in BrowserProfiles : GetBrowser(profileId)
  \/ \E profileId \in BrowserProfiles, ok \in BOOLEAN :
       NewPageCall(profileId, ok)

SpecBrowsers == InitBrowsers /\ [][NextBrowsers]_vars

InitGPU ==
  /\ IdleUA /\ IdleProfiles /\ IdleCanvas /\ IdleLaunch /\ IdlePayloads
  /\ IdleHide /\ IdleGPU /\ IdleBrowsers /\ IdleWarp /\ IdleProxy

NextGPU ==
  \E platform \in PlatformType, st \in Streams :
    GenerateRandomGPUCall(platform, st)

SpecGPU == InitGPU /\ [][NextGPU]_vars

InitHide ==
  /\ IdleUA /\ IdleProfiles /\ IdleCanvas /\ IdleLaunch /\ IdlePayloads
  /\ IdleGPU /\ IdleBrowsers /\ IdleWarp /\ IdleProxy
  /\ hideDoc = FreshHideDoc
  /\ hideResult = NoQuery

NextHide ==
  \/ HideAutomationIndicators
  \/ \E name \in PermissionNames : QueryPermission(name)
  \/ \E k \in 1..Len(PluginData), how \in {"index", "item"}, arg \in 0..2 :
       ReadPlugin(k, how, arg)
  \/ \E k \in 1..Len(PluginData), name \in MimeTypeNames :
       ReadPlugin(k, "namedItem", name)

SpecHide == InitHide /\ [][NextHide]_vars

(***************************************************************************)
(* Claims about the generators (SpecUA, SpecProfile).                      *)
(***************************************************************************)
\* The operating system a user-agent string names in its platform token.
OSOfUA(s) ==
  IF includes(s, "(Windows NT ") THEN "windows"
  ELSE IF includes(s, "(Macintosh; ") THEN "mac"
  ELSE IF includes(s, "(X11; Linux ") THEN "linux"
  ELSE "unknown"

CanonicalPlatforms == {"Win32", "MacIntel", "Linux x86_64"}

\* C2: in every stored bundle hardware.platform is one of the three canonical
\* tokens and names the operating system of userAgent's OS token; a bundle
\* created with platform 'mac' has hardware.platform = 'MacIntel'.
C2_PlatformConsistent ==
  \A id \in DOMAIN profiles :
    LET c == profiles[id]
    IN  /\ c.hardware.platform \in CanonicalPlatforms
        /\ c.hardware.platform = NavigatorPlatform(OSOfUA(c.userAgent))
        /\ (c.platform = "mac" => c.hardware.platform = "MacIntel")

Fingerprint(c) ==
  [userAgent |-> c.userAgent, canvas |-> c.canvas, webgl |-> c.webgl,
   hardware |-> c.hardware]

Seeds(c) == <<c.canvas.seed, c.webgl.seed, c.hardware.seed>>

\* C3: generation is deterministic in the seed and the platform choice: when
\* a profile's bundle is generated again with the same platform choice and
\* comes out with the same seeds, its userAgent, canvas, webgl and hardware
\* are field for field what they were.
C3_Deterministic ==
  [][ \A id \in (DOMAIN profiles) \cap (DOMAIN profiles') :
        (/\ profiles'[id].platform = profiles[id].platform
         /\ Seeds(profiles'[id]) = Seeds(profiles[id]))
        => Fingerprint(profiles'[id]) = Fingerprint(profiles[id]) ]_vars

ExpectedSecChUa(major) ==
  "\"Chromium\";v=\"" \o ToString(major) \o "\", \"Google Chrome\";v=\""
    \o ToString(major) \o "\", \"Not=A?Brand\";v=\"8\""

ExpectedSecChUaPlatform(platform) ==
  CASE platform = "windows" -> "\"Windows\""
    [] platform = "mac"     -> "\"macOS\""
    [] platform = "linux"   -> "\"Linux\""

\* C9: for every string generateUA returns, the client hints sent with it
\* carry the Chrome major version the string was built from, a value in
\* 110..120, and the operating system of its platform token.
C9_HintsFromUA ==
  hints.sent =>
    /\ hints.h.present
    /\ uaDraw.major \in CHROME_VERSIONS_min..CHROME_VERSIONS_max
    /\ hints.h.secChUa = ExpectedSecChUa(uaDraw.major)
    /\ hints.h.secChUaMobile = "?0"
    /\ uaDraw.platform = OSOfUA(ua)
    /\ hints.h.secChUaPlatform = ExpectedSecChUaPlatform(uaDraw.platform)

\* Hints were sent for a mac user agent of the highest major version.
C9_Witness ==
  hints.sent /\ uaDraw.platform = "mac" /\ uaDraw.major = CHROME_VERSIONS_max

NonAppleGPUs ==
  {GPU_CONFIGS[i] : i \in {j \in 1..Len(GPU_CONFIGS) : ~IsAppleGPU(GPU_CONFIGS[j])}}

\* C10: a bundle created with platform 'mac' has an '(Apple)' webgl.vendor,
\* one created with 'windows' or 'linux' a (vendor, renderer) pair of the
\* non-Apple entries of the GPU table.
C10_GpuMatchesPlatform ==
  \A id \in DOMAIN profiles :
    LET c == profiles[id]
    IN  /\ (c.platform = "mac" => includes(c.webgl.vendor, "(Apple)"))
        /\ (c.platform \in {"windows", "linux"} =>
              [vendor |-> c.webgl.vendor, renderer |-> c.webgl.renderer]
                \in NonAppleGPUs)


(***************************************************************************)
(* Claims about the canvas payload (SpecCanvas).                           *)
(***************************************************************************)

\* C4: a toDataURL call leaves the bitmap as it was before the call (also
\* where the noise was clamped), and a toDataURL call that directly follows
\* another one, with no drawing in between, returns the same data URL.
C4_ToDataURLStable ==
  [][ lastCall' = "toDataURL" =>
        /\ pixels' = pixels
        /\ (lastCall = "toDataURL" => result' = result) ]_vars

\* Two toDataURL calls in a row on an enabled payload, the export differing
\* from the plain encoding (noise applied), one channel at 0 (noise clamped).
C4_Witness ==
  /\ lastCall = "toDataURL"
  /\ prevCall = "toDataURL"
  /\ canvasCfg.enabled
  /\ result # originalToDataURL(pixels)
  /\ \E i \in 1..Len(pixels) :
       /\ (i - 1) % 4 # 3
       /\ pixels[i] = 0
       /\ NoiseOf(seededRandom(canvasCfg.st, 3 * ((i - 1) \div 4) + ((i - 1) % 4)),
                  canvasCfg.st.den, canvasCfg.noise) < 0

\* What toBlob left in the bitmap for the outstanding callback.
LeftByToBlob ==
  IF pending.wrapped THEN addNoise(canvasCfg, pending.originalData)
                     ELSE pending.originalData

\* C15: a toDataURL or getImageData call made after toBlob has returned and
\* before its callback has fired, the page not having drawn in between,
\* returns what it returns with no toBlob outstanding: the noise applied
\* once to the content the page drew (the bitmap toBlob was called on).
C15_ExportWhilePending ==
  [][ (pending.waiting /\ pixels = LeftByToBlob) =>
        /\ (lastCall' = "toDataURL" =>
              result' = toDataURL(canvasCfg, pending.originalData).result)
        /\ (lastCall' = "getImageData" =>
              result' = getImageData(canvasCfg, pending.originalData)) ]_vars

\* C17: what the page drew between the toBlob call and its callback (the
\* channels that differ from what toBlob left) is in the bitmap after the
\* callback has fired.
C17_DrawingSurvivesCallback ==
  [][ (pending.waiting /\ lastCall' = "blobCallback") =>
        \A i \in 1..Len(pixels) :
          pixels[i] # LeftByToBlob[i] => pixels'[i] = pixels[i] ]_vars

\* C16: a page that launcher.newPage has returned is fingerprinted from one
\* bundle: there is one generated bundle (the one launch read, or one that
\* regenerateFingerprint produces for the profile's platform) whose
\* userAgent is the page's user-agent override and whose canvas, webgl and
\* hardware configurations are the ones of the payloads installed in the
\* page's document.
BundleOf(c) ==
  [userAgent |-> c.userAgent, script |-> generateInjectionScript(c)]

SessionBundles ==
  {BundleOf(session)} \cup
  {BundleOf(FingerprintTable[session.platform, st]) : st \in Streams}

C16_OneBundlePerPage ==
  (newPagePc = "returned" /\ pages[CreatedPage].doc.runs > 0) =>
    \E b \in SessionBundles :
      /\ pages[CreatedPage].uaOverride = b.userAgent
      /\ \A p \in PayloadSet :
           pages[CreatedPage].doc.installed[p] = b.script[p]

(***************************************************************************)
(* Claims about the launcher (Spec).                                       *)
(***************************************************************************)

\* C1: in every page of the session (open at launch, opened by newPage, or
\* reported by targetcreated) the payloads are installed before the first
\* page script of a document runs, whatever the interleaving of the
\* targetcreated handler with the loading of the page; no host call fails.
C1_InstalledBeforeFirstScript ==
  failures = 0 => \A p \in PageIds : ~pages[p].doc.exposed

\* C5: however many times the combined script has run in a document, each
\* payload has tested and set its marker first: an API is wrapped exactly
\* when its marker is set, exactly once, and an export gets noise once.
C5_InstalledOnce ==
  \A p \in PageIds :
    LET doc == pages[p].doc
    IN  /\ \A payload \in PayloadSet :
             doc.wraps[payload] = IF payload \in doc.markers THEN 1 ELSE 0
        /\ doc.runs >= 1 => (doc.markers = PayloadSet /\ NoisePerExport(doc) = 1)

\* The combined script has run three times in one document (two hooks and a
\* defensive evaluate, say) in which a page script has run.
C5_Witness ==
  \E p \in PageIds :
    /\ pages[p].doc.runs >= 3
    /\ pages[p].doc.scriptRan
    /\ pages[p].doc.wraps = [payload \in PayloadSet |-> 1]

\* C6: when the registration of the payload hook rejects, applyFingerprint
\* is not aborted by it: the call still completes, with the defensive
\* evaluation run and the user-agent override sent, and launch does not
\* reject.
C6_HookFailureNotFatal ==
  \A t \in TaskIds :
    tasks[t].failedAt = "hook" =>
      /\ launchPc # "rejected"
      /\ tasks[t].pc \in {"done", "failed"} =>
           /\ tasks[t].pc = "done"
           /\ pages[tasks[t].page].doc.runs >= 1
           /\ pages[tasks[t].page].uaOverride # ""

\* C7: once launch has settled, a failed applyFingerprint on one page has
\* not made launch reject, and every other page that was open at launch has
\* the payload hook registered.
C7_FailureIsolated ==
  \A t \in TaskIds :
    (tasks[t].pc = "failed" /\ launchPc \in {"returned", "rejected"}) =>
      /\ launchPc = "returned"
      /\ \A p \in PageIds \ {tasks[t].page} :
           (pages[p].open /\ pages[p].kind = "initial") => pages[p].hooks >= 1

\* C8: when createCDPSession or Network.setUserAgentOverride rejects, the
\* applyFingerprint call does not throw: it completes, with the webdriver
\* masking and the automation-indicator hiding registered for the page.
C8_CdpFailureNotFatal ==
  \A t \in TaskIds :
    (tasks[t].failedAt \in {"cdp", "ua"} /\ tasks[t].pc \in {"done", "failed"}) =>
      /\ tasks[t].pc = "done"
      /\ pages[tasks[t].page].wdHooks >= 1
      /\ pages[tasks[t].page].hideHooks >= 1

(***************************************************************************)
(* Claims about the stored profile (SpecProfile).                          *)
(***************************************************************************)
StoreStep(op) == lastOp' = op /\ now' = now

\* C11: the four fingerprint values of a stored profile change only through
\* regenerateFingerprint: every other operation on the store (update, clean,
\* the update launch makes) leaves userAgent, canvas, webgl and hardware of
\* every profile as they were.
C11_FingerprintImmutable ==
  [][ lastOp' # "regenerateFingerprint" =>
        \A id \in (DOMAIN profiles) \cap (DOMAIN profiles') :
          Fingerprint(profiles'[id]) = Fingerprint(profiles[id]) ]_vars

\* The bundles one generation can produce for a platform: the four values
\* of one call sequence of generateUA and the three getDefault*Config.
GenerationsOf ==
  [platform \in PlatformType |->
     {FingerprintTable[platform, st] : st \in Streams}] @@ <<>>

\* C12: a regenerateFingerprint step writes userAgent, canvas, webgl and
\* hardware of one generation together, and leaves id, name, createdAt,
\* platform and proxy of the profile as they were.
C12_RegenerateFrame ==
  [][ StoreStep("regenerateFingerprint") =>
        \A id \in DOMAIN profiles :
          /\ id \in DOMAIN profiles'
          /\ \A f \in {"id", "name", "createdAt", "platform", "proxy"} :
               profiles'[id][f] = profiles[id][f]
          /\ Fingerprint(profiles'[id])
               \in GenerationsOf[profiles[id].platform] ]_vars

\* A regenerated profile that had been renamed, has a proxy, and was created
\* before the clock last moved.
C12_Witness ==
  /\ lastOp = "regenerateFingerprint"
  /\ "p1" \in DOMAIN profiles
  /\ profiles["p1"].name = "renamed"
  /\ profiles["p1"].proxy # NoProxy
  /\ profiles["p1"].createdAt < profiles["p1"].lastUsed

\* C13: for a profile created with platform 'random', regenerateFingerprint
\* keeps the operating system that userAgent names.
C13_PlatformFixed ==
  [][ StoreStep("regenerateFingerprint") =>
        \A id \in (DOMAIN profiles) \cap (DOMAIN profiles') :
          (/\ profiles[id].platform = "random"
           /\ OSOfUA(profiles[id].userAgent) # "unknown")
          => OSOfUA(profiles'[id].userAgent) = OSOfUA(profiles[id].userAgent)
    ]_vars

(***************************************************************************)
(* C14: generateUA('random') resolves the platform from the value r of     *)
(* its one Math.random() call by the thresholds: windows when r < 0.70,    *)
(* mac when 0.70 <= r < 0.90, linux when 0.90 <= r < 1; the comparisons    *)
(* are those of the doubles the literals denote.                           *)
(***************************************************************************)
ThresholdPlatform(r) ==
  IF DLess[r, Double(70, 100)] THEN "windows"
  ELSE IF DLess[r, Double(90, 100)] THEN "mac" ELSE "linux"

C14_Thresholds ==
  uaDraw.rand # NoRand =>
    /\ DLess[uaDraw.rand, <<2^18, 0, 0>>]
    /\ uaDraw.platform = ThresholdPlatform(uaDraw.rand)
    /\ OSOfUA(ua) = uaDraw.platform

\* C20: for every noise level 0..10, every channel value 0..255 and every
\* value of the seeded generator, addNoise leaves the alpha channel as it
\* is, keeps R, G and B within 0..255 and changes each by at most 1.
C20_NoiseBounded ==
  lastCall = "addNoise" =>
    \A i \in 1..Len(pixels) :
      IF (i - 1) % 4 = 3
        THEN result[i] = pixels[i]
        ELSE /\ result[i] \in 0..255
             /\ result[i] - pixels[i] \in {-1, 0, 1}

\* Noise level 10 on a pixel with a channel at 0: the noise of that channel
\* is negative and is clamped, another channel is changed.
C20_Witness ==
  /\ lastCall = "addNoise"
  /\ canvasCfg.noise = MaxNoiseLevel
  /\ result # pixels
  /\ \E i \in 1..3 :
       /\ pixels[i] = 0
       /\ NoiseOf(seededRandom(canvasCfg.st, i - 1), canvasCfg.st.den,
                  canvasCfg.noise) < 0
       /\ result[i] = 0

\* The largest change addNoise can make to one channel at a noise level, over
\* the values of the seeded generator and channel values at both ends and in
\* the middle of the range.
LargestChange[noise \in 0..MaxNoiseLevel] ==
  LET Change(k, v) ==
        LET d == Clamp(v + NoiseOf(k, NoiseGrid, noise)) - v
        IN  IF d < 0 THEN -d ELSE d
      changes == {Change(k, v) : k \in 0..(NoiseGrid - 1), v \in {0, 128, 255}}
  IN  CHOOSE m \in changes : \A c \in changes : c <= m

\* C21: the noise level controls the size of the perturbation: at level 0
\* addNoise returns the pixels as they are, and the largest change of a
\* channel at level 10 is greater than the largest at level 1, so every
\* change made at level 1 is below the largest of level 10.
C21_NoiseLevelControls ==
  lastCall = "addNoise" =>
    /\ canvasCfg.noise = 0 => result = pixels
    /\ LargestChange[MaxNoiseLevel] > LargestChange[1]
    /\ canvasCfg.noise = 1 =>
         \A i \in 1..Len(pixels) :
           /\ result[i] - pixels[i] < LargestChange[MaxNoiseLevel]
           /\ pixels[i] - result[i] < LargestChange[MaxNoiseLevel]

(***************************************************************************)
(* Claims about the webgl payload (SpecWebGL).                             *)
(***************************************************************************)

\* C18: with the payload enabled, after any number of getContext calls for
\* 'webgl', 'webgl2' or 'experimental-webgl' on a canvas, getParameter of the
\* context returns the configured vendor for 37445, the configured renderer
\* for 37446 and the host's value for every other parameter, and
\* getExtension('WEBGL_debug_renderer_info') returns an object whose
\* UNMASKED_VENDOR_WEBGL and UNMASKED_RENDERER_WEBGL are 37445 and 37446,
\* also on a host that does not expose the extension.
C18_WebGLIdentity ==
  glCfg.config.enabled =>
    /\ glResult.op = "getParameter" =>
         glResult.value =
           CASE glResult.arg = 37445 -> glCfg.config.vendor
             [] glResult.arg = 37446 -> glCfg.config.renderer
             [] OTHER -> NativeGetParameter(glResult.arg)
    /\ (glResult.op = "getExtension"
          /\ glResult.arg = "WEBGL_debug_renderer_info") =>
         /\ glResult.value.UNMASKED_VENDOR_WEBGL = 37445
         /\ glResult.value.UNMASKED_RENDERER_WEBGL = 37446

\* getParameter(37445) on a context that three getContext calls have
\* wrapped, on a canvas in mode webgl2.
C18_Witness ==
  /\ glCfg.config.enabled
  /\ glResult.op = "getParameter"
  /\ glResult.arg = 37445
  /\ glCanvas[glResult.canvas].wraps = MaxGetContext
  /\ glCanvas[glResult.canvas].mode = "webgl2"
  /\ glResult.value = glCfg.config.vendor

(***************************************************************************)
(* Claims about the timezone override (SpecTimezone).                      *)
(***************************************************************************)

\* C19: with the hardware payload enabled, getTimezoneOffset returns the
\* table offset of config.timezone, and every Intl.DateTimeFormat page
\* script creates, whatever timeZone its options carry, resolves to
\* config.timezone.
C19_OneZone ==
  hwCfg.enabled =>
    /\ tzResult.op = "getTimezoneOffset" =>
         tzResult.offset = getTimezoneOffset(hwCfg.timezone)
    /\ tzResult.op = "DateTimeFormat" => tzResult.zone = hwCfg.timezone

(***************************************************************************)
(* Claims about the proxy manager (SpecProxy).                             *)
(***************************************************************************)

\* C30: getNext returns the proxies cyclically in insertion order: null
\* while no proxy has been added; with n >= 1 proxies the index stays in
\* 0..n-1, every call returns the proxy after the one the call before it
\* returned (the first after the last), and n calls in a row return every
\* position of the array exactly once.
C30_RoundRobin ==
  LET n == Len(proxies)
  IN  /\ n = 0 => /\ currentIndex = 0
                  /\ proxyResult.op = "getNext" => proxyResult.proxy = NullProxy
      /\ n >= 1 =>
           /\ currentIndex \in 0..(n - 1)
           /\ Len(proxyLog) <= n
           /\ \A i \in 1..Len(proxyLog) : proxyLog[i] \in 1..n
           /\ \A i \in 1..(Len(proxyLog) - 1) :
                proxyLog[i + 1] = (proxyLog[i] % n) + 1
           /\ Len(proxyLog) = n =>
                /\ {proxyLog[i] : i \in 1..n} = 1..n
                /\ \A i, j \in 1..n : proxyLog[i] = proxyLog[j] => i = j
           /\ (proxyResult.op = "getNext" /\ proxyLog # <<>>) =>
                proxyResult.proxy = proxies[proxyLog[Len(proxyLog)]]

\* Three proxies: the last three calls returned positions 3, 1 and 2, a
\* full round that wrapped from the last proxy to the first; the next call
\* reads position 3 again.
C30_Witness ==
  /\ Len(proxies) = 3
  /\ proxyLog = <<3, 1, 2>>
  /\ proxyResult.op = "getNext"
  /\ currentIndex = 2

(***************************************************************************)
(* Claims about the WARP manager (SpecWarp).                               *)
(***************************************************************************)

\* C27: getConfigForProfile gives distinct profiles distinct SOCKS ports and
\* the same profile the same port on every call, also when calls are in
\* flight at the same time: two returned configs have the same port exactly
\* when they are for the same profile.
C27_PortPerProfile ==
  \A r1 \in warpReturned, r2 \in warpReturned :
    (r1[1] = r2[1]) <=> (r1[2] = r2[2])

(***************************************************************************)
(* Claims about the browsers the launcher holds (Spec, SpecBrowsers).      *)
(***************************************************************************)

\* C25: a launch that rejects (profile not found, executable not found,
\* browser start failure, failure while applying the fingerprint to an open
\* page) leaves activeBrowsers and the stored profile as they were before
\* the call: no browser under the profile id, the profile as create stored
\* it.
C25_FailedLaunchLeavesNoTrace ==
  launchPc = "rejected" =>
    /\ activeBrowsers = {}
    /\ profiles \in {<<>>, "p1" :> StoredProfile}

\* C26: every browser the launcher started and has not closed is the value
\* of an activeBrowsers entry; so once close(profileId) or closeAll has
\* resolved, no browser of the profile (of any profile) is running, also
\* after two launches of the profile without a close in between.
C26_NoOrphanBrowser ==
  /\ \A b \in running : MapGet(browserMap, b.profileId) = b
  /\ (launcherResult.op = "close" /\ launcherResult.settled = "resolved") =>
       \A b \in running : b.profileId # launcherResult.profileId
  /\ (launcherResult.op = "closeAll" /\ launcherResult.settled = "resolved")
       => running = {}

\* C28: closeAll closes the browser of every entry of the map and empties
\* the map, also when it rejects because a browser.close() failed; a
\* getBrowser called next returns undefined and a newPage called next
\* rejects with 'No active browser'.
C28_CloseAllEmpties ==
  [][ /\ launcherResult'.op = "closeAll" =>
           /\ browserMap' = <<>>
           /\ \A i \in DOMAIN browserMap :
                browserMap[i].browser \notin running'
      /\ (launcherResult.op = "closeAll"
             /\ launcherResult'.op = "getBrowser") =>
           launcherResult'.value = Undefined
      /\ (launcherResult.op = "closeAll"
             /\ launcherResult'.op = "newPage") =>
           /\ launcherResult'.settled = "rejected"
           /\ launcherResult'.value = "No active browser" ]_vars

(***************************************************************************)
(* Claims about generateRandomGPU (SpecGPU).                               *)
(***************************************************************************)
\* The entries of the GPU table, and those a platform admits.
GPUTable == {GPU_CONFIGS[i] : i \in 1..Len(GPU_CONFIGS)}

Admitted(platform) ==
  CASE platform = "mac" ->
         {g \in GPUTable : includes(g.vendor, "(Apple)")}
    [] platform \in {"windows", "linux"} ->
         {g \in GPUTable : ~includes(g.vendor, "(Apple)")}
    [] OTHER -> GPUTable

\* C24: for every platform choice generateRandomGPU returns an entry of the
\* GPU table: one the platform filter admits when it admits any, one of the
\* unfiltered table when the filter leaves none (the candidate list it
\* draws from is then the whole table).
C24_GpuFromTable ==
  gpuCall.op = "generateRandomGPU" =>
    /\ gpuCall.gpu \in GPUTable
    /\ OrAll(<<>>) = GPU_CONFIGS
    /\ gpuCall.gpu \in (IF Admitted(gpuCall.platform) = {}
                          THEN GPUTable ELSE Admitted(gpuCall.platform))

\* A mac call whose draw is the last value below 1: the last Apple entry.
C24_Witness ==
  /\ gpuCall.op = "generateRandomGPU"
  /\ gpuCall.platform = "mac"
  /\ gpuCall.st.a = RandDen - 1
  /\ gpuCall.gpu = GPU_CONFIGS[Len(GPU_CONFIGS)]

(***************************************************************************)
(* Claims about the generated time zone (SpecProfile).                     *)
(***************************************************************************)

\* C29: the zone of every generated hardware config has an entry in the
\* offsets table of the hardware payload, and the offset the payload
\* reports for the bundle is that entry, on any host.
C29_ZoneInTable ==
  \A id \in DOMAIN profiles :
    LET hardware == profiles[id].hardware
    IN  /\ hardware.timezone \in DOMAIN offsets
        /\ \A host \in HostZones :
             DateGetTimezoneOffset(hardware, host) = offsets[hardware.timezone]

\* A regenerated stored bundle whose zone has a non-zero entry, east of
\* Greenwich.
C29_Witness ==
  /\ "p1" \in DOMAIN profiles
  /\ lastOp = "regenerateFingerprint"
  /\ profiles["p1"].hardware.timezone = "Australia/Sydney"

(***************************************************************************)
(* Claims about hideAutomationIndicators (SpecHide).                       *)
(***************************************************************************)

\* C22: once the payload has run, once or more often, a permissions query
\* for 'notifications' resolves with state 'denied' and every other query
\* returns what the host's permissions.query returns for the same
\* parameters.
C22_PermissionsForwarded ==
  (hideResult.op = "query" /\ hideResult.runs >= 1) =>
    IF hideResult.name = "notifications"
      THEN hideResult.value = Denied
      ELSE hideResult.value = NativeQuery([name |-> hideResult.name], TRUE)

\* The refs of the entries of a sequence of objects.
Refs(objects) == {objects[i].ref : i \in DOMAIN objects}

====
